---------------------------- MODULE Spec2Model ----------------------------
(***************************************************************************)
(* A model of the three instructional scripts of the repository:           *)
(*                                                                         *)
(*   src/01_getting_started/hello.py                                       *)
(*   src/02_basic_syntax/string_formatting.py                              *)
(*   src/02_basic_syntax/types_demo.py                                     *)
(*                                                                         *)
(* A run is one interpreter executing one script.  The state is the call   *)
(* stack (one frame per active function, with its local variables and the  *)
(* line of the statement it executes next), the module namespace, what has *)
(* been written to standard output, and the exit status.                   *)
(*                                                                         *)
(* Python values are modelled by what the interpreter computes:            *)
(*   int    a TLA+ integer, or a Big (decimal digits) where it may exceed  *)
(*          the range of TLC's integers;                                   *)
(*   float  an IEEE-754 binary64 number, [s, m, e] = (-1)^s * m * 2^e with *)
(*          a 53-bit significand m held as a Big; arithmetic rounds to     *)
(*          nearest, ties to even, as the hardware does;                   *)
(*   str    a sequence of one-character strings;                           *)
(*   text written to standard output is a TLA+ string.                     *)
(***************************************************************************)
EXTENDS Integers, Sequences, FiniteSets, TLC

\* e, after v has been evaluated: TLC evaluates operands on demand, and a long
\* chain of pending operands would otherwise be evaluated in one deep descent
Then(v, e) == IF v = v THEN e ELSE e

\* the sequence f, evaluated element by element once
Tuple(f) == f \o <<>>

Max(a, b) == IF a >= b THEN a ELSE b

Min(a, b) == IF a <= b THEN a ELSE b

Abs(i) == IF i < 0 THEN -i ELSE i

(***************************************************************************)
(* Arbitrary-precision naturals: the decimal digits, least significant     *)
(* first, without leading zeros (<<>> is 0).  The operations are written   *)
(* position by position (the carry into a position is determined by the    *)
(* positions below it) rather than digit after digit, which keeps their    *)
(* evaluation shallow.                                                     *)
(***************************************************************************)
RECURSIVE NatDigits(_)
NatDigits(n) ==
    IF n = 0 THEN <<>> ELSE <<n % 10>> \o NatDigits(n \div 10)

RECURSIVE BigToInt(_)
BigToInt(d) ==
    IF d = <<>> THEN 0 ELSE Head(d) + 10 * BigToInt(Tail(d))

\* digit i of a, 0 beyond its length
Dg(a, i) == IF i >= 1 /\ i <= Len(a) THEN a[i] ELSE 0

\* d without its leading (most significant) zeros
Norm(d) ==
    LET nz == {i \in 1..Len(d) : d[i] # 0}
    IN  IF nz = {} THEN <<>>
        ELSE SubSeq(d, 1, CHOOSE i \in nz : \A k \in nz : k <= i)

BigAdd(a, b) ==
    LET n == Max(Len(a), Len(b)) + 1
        s == Tuple([i \in 1..n |-> Dg(a, i) + Dg(b, i)])
        \* a carry enters i when a lower position generates one and every
        \* position between propagates it
        c(i) == IF \E j \in 1..(i - 1) :
                      s[j] >= 10 /\ \A k \in (j + 1)..(i - 1) : s[k] = 9
                THEN 1 ELSE 0
    IN  Norm(Tuple([i \in 1..n |-> (s[i] + c(i)) % 10]))

\* a - b, for a >= b
BigSub(a, b) ==
    LET w(i) == IF \E j \in 1..(i - 1) :
                      a[j] < Dg(b, j) /\ \A k \in (j + 1)..(i - 1) : a[k] = Dg(b, k)
                THEN 1 ELSE 0
    IN  Norm(Tuple([i \in 1..Len(a) |-> (a[i] - Dg(b, i) - w(i) + 10) % 10]))

\* -1, 0 or 1 as a < b, a = b or a > b
BigCmp(a, b) ==
    IF Len(a) < Len(b) THEN -1
    ELSE IF Len(a) > Len(b) THEN 1
    ELSE IF a = b THEN 0
    ELSE LET i == CHOOSE i \in 1..Len(a) :
                      a[i] # b[i] /\ \A k \in (i + 1)..Len(a) : a[k] = b[k]
         IN  IF a[i] < b[i] THEN -1 ELSE 1

\* The Big of value SUM v[i] * 10^(i-1), for a sequence v of naturals that
\* need not be digits: the units of each position, plus the tens carried up.
RECURSIVE Carry(_)
Carry(v) ==
    IF \A i \in 1..Len(v) : v[i] < 10 THEN Norm(v)
    ELSE BigAdd(Norm(Tuple([i \in 1..Len(v) |-> v[i] % 10])),
                Carry(Tuple(<<0>> \o [i \in 1..Len(v) |-> v[i] \div 10])))

\* a * k for a small k (0 <= k <= 10^8)
BigMulSmall(a, k) == Carry(Tuple([i \in 1..Len(a) |-> a[i] * k]))

\* a * 10^n
BigShift(a, n) ==
    IF a = <<>> THEN <<>> ELSE [i \in 1..n |-> 0] \o a

\* a \div 10^n: a without its n lowest digits
BigDrop(a, n) == SubSeq(a, n + 1, Len(a))

\* a % 10^n: the n lowest digits of a
BigLow(a, n) == Norm(SubSeq(a, 1, Min(n, Len(a))))

Pow10(n) == BigShift(<<1>>, n)

\* the sum of the integers s[lo..hi]
RECURSIVE SumSeq(_, _, _)
SumSeq(s, lo, hi) ==
    IF lo > hi THEN 0
    ELSE IF lo = hi THEN s[lo]
    ELSE SumSeq(s, lo, (lo + hi) \div 2) + SumSeq(s, (lo + hi) \div 2 + 1, hi)

\* a * b: position k collects the products a[i] * b[k+1-i]
BigMul(a, b) ==
    IF a = <<>> \/ b = <<>> THEN <<>>
    ELSE Carry(Tuple([k \in 1..(Len(a) + Len(b) - 1) |->
             SumSeq(Tuple([i \in 1..Len(a) |-> a[i] * Dg(b, k + 1 - i)]),
                    1, Len(a))]))

BigSquare(a) == BigMul(a, a)

\* a^n by repeated squaring
RECURSIVE BigPow(_, _)
BigPow(a, n) ==
    IF n = 0 THEN <<1>>
    ELSE BigMul(IF n % 2 = 0 THEN <<1>> ELSE a, BigSquare(BigPow(a, n \div 2)))

BigOdd(a) == a # <<>> /\ a[1] % 2 = 1

\* a / 10^n rounded to the nearest integer, ties to the even one (or, when
\* sticky says that a stands for a little more than a, upwards), for n >= 0
RoundDrop(a, n, sticky) ==
    LET c == BigCmp(BigMulSmall(BigLow(a, n), 2), Pow10(n))
        t == IF sticky \/ BigOdd(BigDrop(a, n)) THEN 1 ELSE 0
    IN  IF n > 0 /\ 2 * c + t > 0
        THEN BigAdd(BigDrop(a, n), <<1>>)
        ELSE BigDrop(a, n)

\* a * 2^k for any integer k, rounded likewise when k < 0:
\* a / 2^j = a * 5^j / 10^j
Scale2(a, k, sticky) ==
    RoundDrop(BigMul(a, BigPow(IF k >= 0 THEN <<2>> ELSE <<5>>, Abs(k))),
              IF k >= 0 THEN 0 ELSE -k, sticky)

(***************************************************************************)
(* float: IEEE-754 binary64.  A finite number is [s, m, e], the value      *)
(* (-1)^s * m * 2^e with 2^52 <= m < 2^53, or m = 0 (then e = 0).  Every   *)
(* operation computes the exact result and rounds it once, to nearest,     *)
(* ties to even.  Infinities, NaN and subnormals are outside the model:    *)
(* no value of the scripts comes near the exponent range's ends.           *)
(***************************************************************************)
\* 2^52 and 2^53 as Bigs
Two52 == <<6, 9, 4, 0, 7, 3, 7, 2, 6, 9, 9, 5, 3, 0, 5, 4>>

Two53 == <<2, 9, 9, 0, 4, 7, 4, 5, 2, 9, 9, 1, 7, 0, 0, 9>>

\* the number of binary digits of n >= 2^lo, given P = 2^lo, when it is at
\* most lo + 5
BitLenFrom(n, lo, P) ==
    lo + Cardinality({j \in 0..4 : BigCmp(n, BigMulSmall(P, 2^j)) >= 0})

\* the number of binary digits of n: with L decimal digits, n >= 10^(L-1)
\* >= 2^lo for lo = floor((L-1) * 3.3219), and n < 10^L < 2^(lo+5)
BitLenAbove(n, lo) == BitLenFrom(n, lo, BigPow(<<2>>, lo))

BitLen(n) ==
    IF n = <<>> THEN 0 ELSE BitLenAbove(n, ((Len(n) - 1) * 33219) \div 10000)

FZero(s) == [s |-> s, m |-> <<>>, e |-> 0]

\* [s, q, e] with a significand q <= 2^53 that rounding produced
Normalized(s, q, e) ==
    IF q = Two53 THEN [s |-> s, m |-> Two52, e |-> e + 1]
    ELSE [s |-> s, m |-> q, e |-> e]

\* FromExact for an n of bl binary digits
FromBits(s, n, e, sticky, bl) ==
    Normalized(s, Scale2(n, 53 - bl, sticky), e - (53 - bl))

\* The float nearest to (-1)^s * (n + d) * 2^e, where 0 <= d < 1 and d > 0 iff
\* sticky (a sticky n has at least 55 bits, so that d only breaks ties).
FromExact(s, n, e, sticky) ==
    IF n = <<>> THEN FZero(s) ELSE FromBits(s, n, e, sticky, BitLen(n))

\* float(i) for an int i
IntToFloat(i) ==
    FromExact(IF i < 0 THEN 1 ELSE 0, NatDigits(Abs(i)), 0, FALSE)

FIsZero(x) == x.m = <<>>

\* x == y
FEq(x, y) == (FIsZero(x) /\ FIsZero(y)) \/ x = y

\* |x| < |y|, |x| = |y|, |x| > |y| as -1, 0, 1
FCmpMag(x, y) ==
    IF FIsZero(x) \/ FIsZero(y)
    THEN (IF FIsZero(x) /\ FIsZero(y) THEN 0 ELSE IF FIsZero(x) THEN -1 ELSE 1)
    ELSE IF x.e # y.e THEN (IF x.e < y.e THEN -1 ELSE 1)
    ELSE BigCmp(x.m, y.m)

\* x < y
FLess(x, y) ==
    IF FIsZero(x) /\ FIsZero(y) THEN FALSE
    ELSE IF FIsZero(x) THEN y.s = 0
    ELSE IF FIsZero(y) THEN x.s = 1
    ELSE IF x.s # y.s THEN x.s = 1
    ELSE IF x.s = 0 THEN FCmpMag(x, y) < 0
    ELSE FCmpMag(x, y) > 0

\* -x
FNeg(x) == [s |-> 1 - x.s, m |-> x.m, e |-> x.e]

\* x + y for the significands nx, ny of x and y at the common exponent e
FAddAligned(x, y, nx, ny, e) ==
    LET c == BigCmp(nx, ny)
    IN  FromExact(IF x.s = y.s THEN x.s ELSE IF c = 0 THEN 0
                  ELSE IF c > 0 THEN x.s ELSE y.s,
                  IF x.s = y.s THEN BigAdd(nx, ny)
                  ELSE IF c >= 0 THEN BigSub(nx, ny) ELSE BigSub(ny, nx),
                  e, FALSE)

\* the significand of x at the exponent e <= x.e
Aligned(x, e) == BigMul(x.m, BigPow(<<2>>, x.e - e))

\* x + y
FAdd(x, y) ==
    IF FIsZero(x) THEN y
    ELSE IF FIsZero(y) THEN x
    ELSE FAddAligned(x, y, Aligned(x, Min(x.e, y.e)), Aligned(y, Min(x.e, y.e)),
                     Min(x.e, y.e))

\* x - y
FSub(x, y) == FAdd(x, FNeg(y))

\* x * y
FMul(x, y) ==
    FromExact((x.s + y.s) % 2, BigMul(x.m, y.m), x.e + y.e, FALSE)

\* The binary expansion of r / b for 0 <= r < b < 2^16, fifteen bits at a
\* time: after n steps, q is floor(r * 2^(15 n) / b) and r the remainder left.
RECURSIVE FracBits(_, _, _)
FracNext(d, b) ==
    Then(d, [q |-> BigAdd(BigMulSmall(d.q, 32768),
                          NatDigits((d.r * 32768) \div b)),
             r |-> (d.r * 32768) % b])

FracBits(r, b, n) ==
    IF n = 0 THEN [q |-> <<>>, r |-> r] ELSE FracNext(FracBits(r, b, n - 1), b)

\* The float nearest to (-1)^s * (whole + fraction), the fraction given by
\* its first 90 bits d.q and inexact when a remainder d.r is left
QuotientFloat(s, whole, d) ==
    FromExact(s, BigAdd(BigMul(NatDigits(whole), BigPow(<<2>>, 90)), d.q), -90,
              d.r # 0)

\* a / b for ints a and b, 0 < |b| < 2^16: the true quotient, rounded once
IntTrueDiv(a, b) ==
    QuotientFloat(IF (a < 0) # (b < 0) THEN 1 ELSE 0, Abs(a) \div Abs(b),
                  FracBits(Abs(a) % Abs(b), Abs(b), 6))

\* DecToDouble for D * 2^k = n, p = -x10 >= 0
DecFrom(s, n, p, k) ==
    FromExact(s, BigDrop(n, p), -k, BigLow(n, p) # <<>>)

\* DecToDouble for x10 = -p <= 0: the integer part of D * 2^k / 10^p, where k
\* is large enough for it to have 55 bits (10^p < 2^(4p+1), D >= 2^(3(L-1)))
DecScaled(s, D, p, k) ==
    DecFrom(s, BigMul(D, BigPow(<<2>>, k)), p, k)

\* the float nearest to (-1)^s * D * 10^x10 (the decimal to binary conversion
\* of float literals, float(str) and round())
DecToDouble(s, D, x10) ==
    IF D = <<>> THEN FZero(s)
    ELSE IF x10 >= 0 THEN DecScaled(s, BigShift(D, x10), 0, 0)
    ELSE DecScaled(s, D, -x10, Max(0, 60 + 4 * (-x10) - 3 * (Len(D) - 1)))

\* |x| as an exact decimal [d, x10]: |x| = d * 10^x10 (m * 2^e = m * 5^-e *
\* 10^e for e < 0)
FDecimal(x) ==
    [d   |-> BigMul(x.m, BigPow(IF x.e >= 0 THEN <<2>> ELSE <<5>>, Abs(x.e))),
     x10 |-> IF x.e >= 0 THEN 0 ELSE x.e]

\* v.d * 10^(v.x10 + p) rounded to the nearest integer, ties to even
DecRound(v, p) ==
    IF v.x10 + p >= 0 THEN BigShift(v.d, v.x10 + p)
    ELSE RoundDrop(v.d, -(v.x10 + p), FALSE)

\* |x| * 10^p rounded to the nearest integer, ties to even
ScaledRound(x, p) == DecRound(FDecimal(x), p)

\* int(x): truncation toward zero, as a Big magnitude (the sign is x.s)
TruncDec(v) == BigDrop(v.d, -v.x10)

FTruncMag(x) == TruncDec(FDecimal(x))

\* floor(log10 v) for an exact decimal v # 0
DecLog10(v) == Len(v.d) - 1 + v.x10

\* [d, E] for the n-digit rounding q of a decimal with floor(log10) = E, which
\* has n + 1 digits when the rounding carried into a new digit
SigOf(q, n, E) ==
    IF Len(q) > n THEN [d |-> Pow10(n - 1), E |-> E + 1]
    ELSE [d |-> q, E |-> E]

\* v rounded to n significant decimal digits: [d, E], v ~ d * 10^(E-n+1)
\* with 10^(n-1) <= d < 10^n
ToSig(v, n) == SigOf(DecRound(v, n - Len(v.d) - v.x10), n, DecLog10(v))

\* the n-digit rounding t of |x| reads back as x
ReadsBack(x, n, t) == DecToDouble(x.s, t.d, t.E - n + 1) = x

RoundTrips(x, v, n) == ReadsBack(x, n, ToSig(v, n))

\* the least number of S
Least(S) == CHOOSE n \in S : \A m \in S : n <= m

\* [d, E, n] for the n-digit rounding t
Digits(t, n) == [d |-> t.d, E |-> t.E, n |-> n]

ShortestOf(v, n) == Digits(ToSig(v, n), n)

\* The shortest decimal that converts back to x (what repr and str print):
\* the least n whose n-digit rounding of x reads back as x; 17 always does.
ShortestIn(x, v) ==
    ShortestOf(v, Least({n \in 1..17 : n = 17 \/ RoundTrips(x, v, n)}))

Shortest(x) == ShortestIn(x, FDecimal(x))

\* round(x, nd) for nd >= 0: the correctly rounded decimal, read back
FRound(x, nd) == DecToDouble(x.s, ScaledRound(x, nd), -nd)

(***************************************************************************)
(* str: a sequence of pieces of text whose concatenation is the string.    *)
(* Every str that is computed, sliced, measured by precision or changed in *)
(* case has one character per piece; a literal segment of an f-string,     *)
(* which is only ever concatenated and measured, is one piece.             *)
(***************************************************************************)
\* the pieces s[lo..hi] as one string, as written to standard output
RECURSIVE TextOf(_, _, _)
TextOf(s, lo, hi) ==
    IF lo > hi THEN ""
    ELSE IF lo = hi THEN s[lo]
    ELSE TextOf(s, lo, (lo + hi) \div 2) \o TextOf(s, (lo + hi) \div 2 + 1, hi)

Text(s) == TextOf(s, 1, Len(s))

\* The characters of the scripts that a TLA+ string cannot hold are written
\* as Python writes them, \uXXXX; such a piece is one character.
Escapes == {"\\u2248", "\\u2713", "\\u2550", "\\u2551", "\\u2554", "\\u2557",
            "\\u255a", "\\u255d"}

\* the number of characters of a piece
PieceLen(p) == IF p \in Escapes THEN 1 ELSE Len(p)

\* len(s)
StrLen(s) == SumSeq(Tuple([i \in 1..Len(s) |-> PieceLen(s[i])]), 1, Len(s))

\* c * n for a one-character str c
Rep(c, n) == [i \in 1..Max(0, n) |-> c]

\* s[::-1]
Reverse(s) == [i \in 1..Len(s) |-> s[Len(s) + 1 - i]]

DigitChar == <<"0", "1", "2", "3", "4", "5", "6", "7", "8", "9",
               "a", "b", "c", "d", "e", "f">>

IsDigit(c) == \E i \in 1..10 : DigitChar[i] = c

DigitVal(c) == (CHOOSE i \in 1..10 : DigitChar[i] = c) - 1

LowerCase == <<"a", "b", "c", "d", "e", "f", "g", "h", "i", "j", "k", "l", "m",
               "n", "o", "p", "q", "r", "s", "t", "u", "v", "w", "x", "y", "z">>

UpperCase == <<"A", "B", "C", "D", "E", "F", "G", "H", "I", "J", "K", "L", "M",
               "N", "O", "P", "Q", "R", "S", "T", "U", "V", "W", "X", "Y", "Z">>

\* c mapped from the alphabet from to the alphabet to, other characters kept
MapCase(c, from, to) ==
    IF \E i \in 1..26 : from[i] = c
    THEN to[CHOOSE i \in 1..26 : from[i] = c]
    ELSE c

\* s.upper() and s.lower(), for ASCII text
StrUpper(s) == [i \in 1..Len(s) |-> MapCase(s[i], LowerCase, UpperCase)]

StrLower(s) == [i \in 1..Len(s) |-> MapCase(s[i], UpperCase, LowerCase)]

\* s[:n] and s[-n:] for 0 <= n
SliceTo(s, n) == SubSeq(s, 1, Min(n, Len(s)))

SliceLast(s, n) == SubSeq(s, Max(0, Len(s) - n) + 1, Len(s))

\* the decimal digits of a Big, most significant first
BigToStr(d) ==
    IF d = <<>> THEN <<"0">>
    ELSE [i \in 1..Len(d) |-> DigitChar[d[Len(d) + 1 - i] + 1]]

SignStr(neg) == IF neg THEN <<"-">> ELSE <<>>

\* str(i) for an int i
IntToStr(i) == SignStr(i < 0) \o BigToStr(NatDigits(Abs(i)))

\* the digits of n >= 0 in base b (2, 8 or 16), most significant first
RECURSIVE BaseDigits(_, _)
BaseDigits(n, b) ==
    IF n < b THEN <<DigitChar[n + 1]>>
    ELSE BaseDigits(n \div b, b) \o <<DigitChar[(n % b) + 1]>>

\* bin(n), oct(n), hex(n)
Bin(n) == SignStr(n < 0) \o <<"0", "b">> \o BaseDigits(Abs(n), 2)

Oct(n) == SignStr(n < 0) \o <<"0", "o">> \o BaseDigits(Abs(n), 8)

Hex(n) == SignStr(n < 0) \o <<"0", "x">> \o BaseDigits(Abs(n), 16)

\* The numerals int() and float() read: an optional sign, then digits, for
\* float with at most one point among them (the scripts pass no exponent,
\* underscore or surrounding blank).
Unsigned(s) ==
    IF s # <<>> /\ (s[1] = "-" \/ s[1] = "+") THEN Tail(s) ELSE s

Negative(s) == s # <<>> /\ s[1] = "-"

AllDigits(u) == u # <<>> /\ \A i \in 1..Len(u) : IsDigit(u[i])

IsIntText(s) == AllDigits(Unsigned(s))

PointedDigits(u) ==
    /\ \A i \in 1..Len(u) : IsDigit(u[i]) \/ u[i] = "."
    /\ Cardinality({i \in 1..Len(u) : u[i] = "."}) <= 1
    /\ \E i \in 1..Len(u) : IsDigit(u[i])

\* IsFloatText gone wrong: a numeral with a point is refused
IsFloatTextNoPoint(s) == AllDigits(Unsigned(s))

IsFloatText(s) == PointedDigits(Unsigned(s))

\* the characters of s other than the point
Unpointed(s) == SelectSeq(s, LAMBDA c : c # ".")

\* the digits of s as a Big, the point skipped
DigitsOf(s) ==
    Norm(Tuple([i \in 1..Len(Unpointed(s)) |->
                    DigitVal(Unpointed(s)[Len(Unpointed(s)) + 1 - i])]))

\* the number of digits after the point
FracLen(s) ==
    IF \E i \in 1..Len(s) : s[i] = "."
    THEN Len(s) - (CHOOSE i \in 1..Len(s) : s[i] = ".")
    ELSE 0

\* int(s) for IsIntText(s), for a magnitude below 2^31
IntOf(s) ==
    IF Negative(s) THEN -BigToInt(DigitsOf(Unsigned(s)))
    ELSE BigToInt(DigitsOf(Unsigned(s)))

\* float(s) for IsFloatText(s); a float literal of the source is read the same
FloatOf(s) ==
    DecToDouble(IF Negative(s) THEN 1 ELSE 0, DigitsOf(Unsigned(s)),
                -FracLen(Unsigned(s)))

(***************************************************************************)
(* Format specifications: [[fill]align][sign][0][width][,][.precision]     *)
(* [type], read from the characters after the colon of a replacement       *)
(* field.  (The z and # flags, which no script uses, are not read.)        *)
(***************************************************************************)
\* the empty specification; fill is "" when none is given
FS == [ok |-> TRUE, fill |-> "", align |-> "", sign |-> "", zero |-> FALSE,
       width |-> 0, comma |-> FALSE, prec |-> -1, type |-> ""]

\* character i of s, "" beyond its end
At(s, i) == IF i >= 1 /\ i <= Len(s) THEN s[i] ELSE ""

\* the position after the digits of s that start at i
DigitsEnd(s, i) ==
    CHOOSE j \in i..(Len(s) + 1) :
        /\ \A k \in i..(j - 1) : IsDigit(s[k])
        /\ ~IsDigit(At(s, j))

\* the number written by the digits s[i..j-1], 0 when there are none
RECURSIVE NumberAt(_, _, _)
NumberAt(s, i, j) ==
    IF j <= i THEN 0 ELSE 10 * NumberAt(s, i, j - 1) + DigitVal(s[j - 1])

\* the presentation type: the last character, and nothing after it
ParseType(s, r, i) ==
    IF i > Len(s) THEN r
    ELSE IF i = Len(s) THEN [r EXCEPT !.type = s[i]]
    ELSE [r EXCEPT !.ok = FALSE]

\* .precision, whose digits end before j: a point needs a digit
ParsePrecTo(s, r, i, j) ==
    IF j = i + 1 THEN [r EXCEPT !.ok = FALSE]
    ELSE ParseType(s, [r EXCEPT !.prec = NumberAt(s, i + 1, j)], j)

ParsePrec(s, r, i) ==
    IF At(s, i) = "." THEN ParsePrecTo(s, r, i, DigitsEnd(s, i + 1))
    ELSE ParseType(s, r, i)

ParseComma(s, r, i) ==
    IF At(s, i) = "," THEN ParsePrec(s, [r EXCEPT !.comma = TRUE], i + 1)
    ELSE ParsePrec(s, r, i)

ParseWidthTo(s, r, i, j) ==
    ParseComma(s, [r EXCEPT !.width = NumberAt(s, i, j)], j)

ParseWidth(s, r, i) == ParseWidthTo(s, r, i, DigitsEnd(s, i))

ParseZero(s, r, i) ==
    IF At(s, i) = "0" THEN ParseWidth(s, [r EXCEPT !.zero = TRUE], i + 1)
    ELSE ParseWidth(s, r, i)

ParseSign(s, r, i) ==
    IF At(s, i) \in {"+", "-", " "}
    THEN ParseZero(s, [r EXCEPT !.sign = s[i]], i + 1)
    ELSE ParseZero(s, r, i)

Aligns == {"<", ">", "=", "^"}

\* the specification written by the characters s
ParseSpec(s) ==
    IF At(s, 2) \in Aligns
    THEN ParseSign(s, [FS EXCEPT !.fill = s[1], !.align = s[2]], 3)
    ELSE IF At(s, 1) \in Aligns
    THEN ParseSign(s, [FS EXCEPT !.align = s[1]], 2)
    ELSE ParseSign(s, FS, 1)

(***************************************************************************)
(* str(), repr() and format() of numbers and text.                         *)
(***************************************************************************)
\* the digits s with a comma before every group of three, from the right
RECURSIVE Group(_)
Group(s) ==
    IF Len(s) <= 3 THEN s
    ELSE Group(SubSeq(s, 1, Len(s) - 3)) \o <<",">> \o SubSeq(s, Len(s) - 2, Len(s))

\* the digits ds of a number scaled by 10^prec, with zeros in front so that a
\* digit stands before the point, as digits.digits
Pointed(ds, prec, comma) ==
    (IF comma THEN Group(SubSeq(ds, 1, Len(ds) - prec))
     ELSE SubSeq(ds, 1, Len(ds) - prec))
    \o (IF prec > 0 THEN <<".">> \o SubSeq(ds, Len(ds) - prec + 1, Len(ds))
        ELSE <<>>)

ZeroFilled(ds, n) == Rep("0", n - Len(ds)) \o ds

\* FixedChars gone wrong: the digits beyond prec are cut off, not rounded
FixedCharsTruncated(x, prec, comma) ==
    Pointed(ZeroFilled(BigToStr(BigDrop(BigShift(FDecimal(x).d, prec),
                                        -FDecimal(x).x10)),
                       prec + 1),
            prec, comma)

\* |x| with prec digits after the point, correctly rounded
FixedChars(x, prec, comma) ==
    Pointed(ZeroFilled(BigToStr(ScaledRound(x, prec)), prec + 1), prec, comma)

\* the exponent part e+XX / e-XX, two digits at least
ExpPart(E) ==
    <<"e", IF E < 0 THEN "-" ELSE "+">> \o ZeroFilled(IntToStr(Abs(E)), 2)

\* the digits ds as d.ddd e+XX
SciOf(ds, E) ==
    <<ds[1]>> \o (IF Len(ds) > 1 THEN <<".">> \o Tail(ds) ELSE <<>>) \o ExpPart(E)

SciSig(t) == SciOf(BigToStr(t.d), t.E)

\* |x| as d.ddd e+XX with prec digits after the point
SciChars(x, prec) ==
    IF FIsZero(x) THEN SciOf(Rep("0", prec + 1), 0)
    ELSE SciSig(ToSig(FDecimal(x), prec + 1))

\* the digits ds of a decimal with floor(log10) = pt - 1, in positional
\* notation while the point falls within -4 < pt <= 16, else with an exponent
ReprOf(ds, pt) ==
    IF pt <= -4 \/ pt > 16 THEN SciOf(ds, pt - 1)
    ELSE IF pt <= 0 THEN <<"0", ".">> \o Rep("0", -pt) \o ds
    ELSE IF pt >= Len(ds) THEN ds \o Rep("0", pt - Len(ds)) \o <<".", "0">>
    ELSE SubSeq(ds, 1, pt) \o <<".">> \o SubSeq(ds, pt + 1, Len(ds))

ReprSig(t) == ReprOf(BigToStr(t.d), t.E + 1)

\* repr(|x|): the shortest digits that read back as x
ReprChars(x) ==
    IF FIsZero(x) THEN <<"0", ".", "0">> ELSE ReprSig(Shortest(x))

\* repr(x) and str(x) of a float
FloatToStr(x) == SignStr(x.s = 1) \o ReprChars(x)

\* the sign a number is printed with
SignChars(neg, sign) ==
    IF neg THEN <<"-">>
    ELSE IF sign = "+" THEN <<"+">>
    ELSE IF sign = " " THEN <<" ">>
    ELSE <<>>

\* sign and body padded to the width.  Without an alignment numbers align
\* right and text left (dflt), and the 0 flag puts the padding of a number
\* between sign and digits; without a fill character the 0 flag fills with
\* zeros.
PadWith(sign, body, align, fill, n) ==
    CASE align = "<" -> sign \o body \o Rep(fill, n)
      [] align = ">" -> Rep(fill, n) \o sign \o body
      [] align = "^" -> Rep(fill, n \div 2) \o sign \o body
                        \o Rep(fill, n - n \div 2)
      [] align = "=" -> sign \o Rep(fill, n) \o body

\* Pad gone wrong: the zero flag of the specification is ignored
PadSpaces(sign, body, spec, dflt) ==
    PadWith(sign, body, IF spec.align # "" THEN spec.align ELSE dflt,
            IF spec.fill # "" THEN spec.fill ELSE " ",
            spec.width - StrLen(sign) - StrLen(body))

Pad(sign, body, spec, dflt) ==
    PadWith(sign, body,
            IF spec.align # "" THEN spec.align
            ELSE IF spec.zero /\ dflt = ">" THEN "=" ELSE dflt,
            IF spec.fill # "" THEN spec.fill
            ELSE IF spec.zero THEN "0" ELSE " ",
            spec.width - StrLen(sign) - StrLen(body))

FloatTypes == {"", "e", "E", "f", "F", "g", "G", "n", "%"}

IntTypes == {"", "b", "c", "d", "o", "x", "X", "n"}

\* format(x, spec) succeeds for a float x
FloatSpecOk(spec) == spec.ok /\ spec.type \in FloatTypes

\* the digits of format(x, spec) for the presentation types the scripts use:
\* fixed point, percent (x * 100, fixed point, and a percent sign),
\* exponent, and none (repr)
FloatBody(x, spec, prec) ==
    CASE spec.type \in {"f", "%"} ->
           FixedChars(IF spec.type = "%" THEN FMul(x, IntToFloat(100)) ELSE x,
                      prec, spec.comma)
           \o (IF spec.type = "%" THEN <<"%">> ELSE <<>>)
      [] spec.type = "e" -> SciChars(x, prec)
      [] spec.type = "" /\ spec.prec < 0 -> ReprChars(x)

\* format(x, spec) of a float x
FormatFloat(x, spec) ==
    Pad(SignChars(x.s = 1, spec.sign),
        FloatBody(x, spec, IF spec.prec < 0 THEN 6 ELSE spec.prec), spec, ">")

\* format(i, spec) succeeds for an int i in an integer presentation
IntSpecOk(spec) ==
    /\ spec.ok /\ spec.type \in IntTypes /\ spec.prec < 0
    /\ spec.comma => spec.type \in {"", "d"}

\* the digits of format(i, spec) for a Big magnitude a
IntBody(a, spec) ==
    CASE spec.type \in {"", "d"} ->
           IF spec.comma THEN Group(BigToStr(a)) ELSE BigToStr(a)
      [] spec.type = "b" -> BaseDigits(BigToInt(a), 2)
      [] spec.type = "o" -> BaseDigits(BigToInt(a), 8)
      [] spec.type = "x" -> BaseDigits(BigToInt(a), 16)
      [] spec.type = "X" -> StrUpper(BaseDigits(BigToInt(a), 16))

\* format(i, spec) of an int of sign neg and magnitude a
FormatInt(neg, a, spec) ==
    Pad(SignChars(neg, spec.sign), IntBody(a, spec), spec, ">")

\* format(s, spec) succeeds for a str s
StrSpecOk(spec) ==
    /\ spec.ok /\ spec.type \in {"", "s"}
    /\ spec.sign = "" /\ ~spec.comma /\ spec.align # "="

\* format(s, spec) of a str s
FormatStr(s, spec) ==
    Pad(<<>>, IF spec.prec < 0 THEN s ELSE SliceTo(s, spec.prec), spec, "<")

(***************************************************************************)
(* Python values: [t, v], the type's name and the value.  Lists, dicts and *)
(* instances are objects of the heap H and are held by reference.          *)
(***************************************************************************)
PyInt(n) == [t |-> "int", v |-> n]

\* an int beyond the range of TLC's integers: the magnitude as a Big
PyLong(big) == [t |-> "long", v |-> big]

PyFloat(x) == [t |-> "float", v |-> x]

PyStr(s) == [t |-> "str", v |-> s]

PyBool(b) == [t |-> "bool", v |-> b]

PyNone == [t |-> "NoneType", v |-> 0]

PyTuple(items) == [t |-> "tuple", v |-> items]

\* the class named n, as an object
PyType(n) == [t |-> "type", v |-> n]

\* Decimal: sign, coefficient and exponent, (-1)^s * d * 10^x10
PyDecimal(s, d, x10) == [t |-> "Decimal", v |-> [s |-> s, d |-> d, x10 |-> x10]]

PyDatetime(dt) == [t |-> "datetime", v |-> dt]

\* a reference to the heap object at index i
PyRef(i) == [t |-> "ref", v |-> i]

\* heap objects
ListObj(items) == [t |-> "list", v |-> items]

\* a dict: its items <<key, value>> in insertion order
DictObj(items) == [t |-> "dict", v |-> items]

\* an instance of class cls with the attributes attrs
Instance(cls, attrs) == [t |-> cls, v |-> attrs]

\* the object a value denotes: the heap object of a reference, else itself
Deref(val, H) == IF val.t = "ref" THEN H[val.v] ELSE val

\* a float literal of the source, or float(s) for a str s that is a numeral
FloatLit(s) == PyFloat(FloatOf(s))

\* the int of magnitude big, held as a TLC integer when it is below 10^9
IntOfBig(big) == IF Len(big) <= 9 THEN PyInt(BigToInt(big)) ELSE PyLong(big)

\* a ** b for ints a >= 0, b >= 0
IntPow(a, b) == IntOfBig(BigPow(NatDigits(a), b))

\* a // b and a % b for b # 0: the quotient rounds toward minus infinity and
\* the remainder has the sign of b
FloorDiv(a, b) ==
    IF b > 0 THEN a \div b ELSE (-a) \div (-b)

Modulo(a, b) == a - b * FloorDiv(a, b)

\* Range gone wrong: the last number below stop is left out
RangeShort(start, stop, step) ==
    [k \in 1..Max(0, (stop - start + step - 1) \div step - 1) |->
        PyInt(start + (k - 1) * step)]

\* range(start, stop, step) for step > 0, as the sequence it yields
Range(start, stop, step) ==
    [k \in 1..Max(0, (stop - start + step - 1) \div step) |->
        PyInt(start + (k - 1) * step)]

\* bool(val): the truth value of val.  Zero of a numeric type, None, False
\* and empty str, tuple, list and dict are false; an instance of a class
\* that defines neither __bool__ nor __len__ is true, as is everything else.
Truth(o) ==
    CASE o.t = "int" -> o.v # 0
      [] o.t = "long" -> o.v # <<>>
      [] o.t = "float" -> ~FIsZero(o.v)
      [] o.t = "bool" -> o.v
      [] o.t = "NoneType" -> FALSE
      [] o.t \in {"str", "tuple", "list", "dict"} -> Len(o.v) > 0
      [] o.t = "Decimal" -> o.v.d # <<>>
      [] OTHER -> TRUE

Truthy(val, H) == Truth(Deref(val, H))

\* val == other for two values of the scripts' scalar types
PyEq(a, b) ==
    CASE a.t = "int" /\ b.t = "int" -> a.v = b.v
      [] a.t = "float" /\ b.t = "float" -> FEq(a.v, b.v)
      [] a.t = "int" /\ b.t = "float" -> FEq(IntToFloat(a.v), b.v)
      [] a.t = "float" /\ b.t = "int" -> FEq(a.v, IntToFloat(b.v))
      [] a.t = "str" /\ b.t = "str" -> Text(a.v) = Text(b.v)
      [] a.t = "bool" /\ b.t = "bool" -> a.v = b.v
      [] OTHER -> FALSE

(***************************************************************************)
(* decimal.Decimal, within the default context's 28 digits of precision    *)
(***************************************************************************)
\* Decimal(s) for a numeral s
DecimalOf(s) ==
    PyDecimal(IF Negative(s) THEN 1 ELSE 0, DigitsOf(Unsigned(s)),
              -FracLen(Unsigned(s)))

\* the coefficient of a at the exponent x10 <= a.x10
Coefficient(a, x10) == BigShift(a.d, a.x10 - x10)

\* a + b for the coefficients ca, cb at the common exponent x10
DecimalSum(a, b, ca, cb, x10) ==
    IF a.s = b.s THEN PyDecimal(a.s, BigAdd(ca, cb), x10)
    ELSE IF BigCmp(ca, cb) >= 0 THEN PyDecimal(a.s, BigSub(ca, cb), x10)
    ELSE PyDecimal(b.s, BigSub(cb, ca), x10)

\* a + b: exact, at the smaller exponent
DecimalAdd(a, b) ==
    DecimalSum(a, b, Coefficient(a, Min(a.x10, b.x10)),
               Coefficient(b, Min(a.x10, b.x10)), Min(a.x10, b.x10))

\* a == b: equal values, whatever the exponents
DecimalEq(a, b) ==
    /\ Coefficient(a, Min(a.x10, b.x10)) = Coefficient(b, Min(a.x10, b.x10))
    /\ a.s = b.s \/ a.d = <<>>

\* str(a) for an exponent -6 <= x10 <= 0: positional notation, every digit
\* of the coefficient shown
DecimalStr(a) ==
    SignStr(a.s = 1)
    \o Pointed(ZeroFilled(BigToStr(a.d), 1 - a.x10), -a.x10, FALSE)

(***************************************************************************)
(* datetime.datetime: [year, month, day, hour, minute, second]             *)
(***************************************************************************)
MonthNames == <<"January", "February", "March", "April", "May", "June", "July",
                "August", "September", "October", "November", "December">>

\* weekday() numbers Monday 0
DayNames == <<"Monday", "Tuesday", "Wednesday", "Thursday", "Friday",
              "Saturday", "Sunday">>

IsLeap(y) == y % 4 = 0 /\ (y % 100 # 0 \/ y % 400 = 0)

DaysInMonth(y, m) ==
    IF m = 2 THEN (IF IsLeap(y) THEN 29 ELSE 28)
    ELSE IF m \in {4, 6, 9, 11} THEN 30 ELSE 31

\* the number of days of the months of year y before month m
DaysBeforeMonth(y, m) ==
    SumSeq([k \in 1..(m - 1) |-> DaysInMonth(y, k)], 1, m - 1)

\* the number of days before January 1st of year y, from 1 January of year 1
DaysBeforeYear(y) ==
    (y - 1) * 365 + (y - 1) \div 4 - (y - 1) \div 100 + (y - 1) \div 400

\* toordinal(): 1 January of year 1, a Monday, is day 1
Ordinal(dt) == DaysBeforeYear(dt.year) + DaysBeforeMonth(dt.year, dt.month) + dt.day

Weekday(dt) == (Ordinal(dt) + 6) % 7

\* what the directive %c of strftime stands for
Directive(dt, c) ==
    CASE c = "Y" -> ZeroFilled(IntToStr(dt.year), 4)
      [] c = "m" -> ZeroFilled(IntToStr(dt.month), 2)
      [] c = "d" -> ZeroFilled(IntToStr(dt.day), 2)
      [] c = "H" -> ZeroFilled(IntToStr(dt.hour), 2)
      [] c = "M" -> ZeroFilled(IntToStr(dt.minute), 2)
      [] c = "S" -> ZeroFilled(IntToStr(dt.second), 2)
      [] c = "B" -> <<MonthNames[dt.month]>>
      [] c = "A" -> <<DayNames[Weekday(dt) + 1]>>
      [] c = "%" -> <<"%">>

\* the sequences p[lo..hi] in a row
RECURSIVE Flat(_, _, _)
Flat(p, lo, hi) ==
    IF lo > hi THEN <<>>
    ELSE IF lo = hi THEN p[lo]
    ELSE Flat(p, lo, (lo + hi) \div 2) \o Flat(p, (lo + hi) \div 2 + 1, hi)

\* character i of the pattern s starts a directive: a percent sign before a
\* character, itself preceded by an even number of percent signs
StartsDirective(s, i) ==
    /\ s[i] = "%" /\ i < Len(s)
    /\ Cardinality({j \in 1..(i - 1) : \A k \in j..(i - 1) : s[k] = "%"}) % 2 = 0

\* dt.strftime(s): every directive replaced, every other character kept
Strftime(dt, s) ==
    Flat(Tuple([i \in 1..Len(s) |->
                   IF StartsDirective(s, i) THEN Directive(dt, s[i + 1])
                   ELSE IF i > 1 /\ StartsDirective(s, i - 1) THEN <<>>
                   ELSE <<s[i]>>]),
         1, Len(s))

(***************************************************************************)
(* repr(), str() and format() of a value                                   *)
(***************************************************************************)
\* repr(s) of a str s without characters that need an escape: in single
\* quotes, or in double quotes when s has a single quote and no double one
Quoted(s, q) == <<q>> \o s \o <<q>>

StrRepr(s) ==
    IF (\E i \in 1..Len(s) : s[i] = "'") /\ ~(\E i \in 1..Len(s) : s[i] = "\"")
    THEN Quoted(s, "\"")
    ELSE Quoted(s, "'")

\* repr(val).  (An instance is printed by its class's __repr__, which is
\* code of the script and runs in a frame of its own.)
RECURSIVE Repr(_, _)
RECURSIVE ReprItems(_, _, _)
RECURSIVE ReprPairs(_, _, _)
Repr(val, H) ==
    CASE val.t = "int" -> IntToStr(val.v)
      [] val.t = "long" -> BigToStr(val.v)
      [] val.t = "float" -> FloatToStr(val.v)
      [] val.t = "str" -> StrRepr(val.v)
      [] val.t = "bool" -> IF val.v THEN <<"True">> ELSE <<"False">>
      [] val.t = "NoneType" -> <<"None">>
      [] val.t = "type" -> <<"<class '", val.v, "'>">>
      [] val.t = "Decimal" -> <<"Decimal('">> \o DecimalStr(val.v) \o <<"')">>
      [] val.t = "tuple" ->
           <<"(">> \o ReprItems(val.v, 1, H)
           \o (IF Len(val.v) = 1 THEN <<",">> ELSE <<>>) \o <<")">>
      [] val.t = "ref" /\ H[val.v].t = "list" ->
           <<"[">> \o ReprItems(H[val.v].v, 1, H) \o <<"]">>
      [] val.t = "ref" /\ H[val.v].t = "dict" ->
           <<"{">> \o ReprPairs(H[val.v].v, 1, H) \o <<"}">>

\* the reprs of items[i..], separated by commas
ReprItems(items, i, H) ==
    IF i > Len(items) THEN <<>>
    ELSE Repr(items[i], H)
         \o (IF i < Len(items) THEN <<",", " ">> ELSE <<>>)
         \o ReprItems(items, i + 1, H)

\* key: value of the pairs[i..], separated by commas
ReprPairs(pairs, i, H) ==
    IF i > Len(pairs) THEN <<>>
    ELSE Repr(pairs[i][1], H) \o <<":", " ">> \o Repr(pairs[i][2], H)
         \o (IF i < Len(pairs) THEN <<",", " ">> ELSE <<>>)
         \o ReprPairs(pairs, i + 1, H)

\* str(val): the text itself for a str, the digits for a Decimal, else repr
Str(val, H) ==
    CASE val.t = "str" -> val.v
      [] val.t = "Decimal" -> DecimalStr(val.v)
      [] OTHER -> Repr(val, H)

\* the outcome of a conversion to text: the str, or the exception raised
Ok(s) == [ok |-> TRUE, str |-> s, exc |-> ""]

Fail(x) == [ok |-> FALSE, str |-> <<>>, exc |-> x]

IsIntLike(val) == val.t \in {"int", "long", "bool"}

\* the sign and magnitude (a Big) of an int or bool
IntNeg(val) == val.t = "int" /\ val.v < 0

IntMag(val) ==
    CASE val.t = "int" -> NatDigits(Abs(val.v))
      [] val.t = "long" -> val.v
      [] val.t = "bool" -> IF val.v THEN <<1>> ELSE <<>>

\* the float a number is formatted as under a float presentation type
AsFloat(val) ==
    IF val.t = "float" THEN val.v
    ELSE FromExact(IF IntNeg(val) THEN 1 ELSE 0, IntMag(val), 0, FALSE)

\* format(val, chars) for the specification spec that chars writes.  The
\* empty specification gives str(val); a str, an int and a float format by
\* their own rules (an int as a float under a float type); a datetime takes
\* the specification as a strftime pattern; any other type refuses a
\* non-empty specification.
FormatWith(val, chars, spec, H) ==
    CASE chars = <<>> -> Ok(Str(val, H))
      [] chars # <<>> /\ val.t = "str" ->
           IF StrSpecOk(spec) THEN Ok(FormatStr(val.v, spec))
           ELSE Fail("ValueError")
      [] chars # <<>> /\ val.t = "datetime" -> Ok(Strftime(val.v, chars))
      [] chars # <<>> /\ (val.t = "float" \/ IsIntLike(val)) ->
           IF (val.t = "float" \/ spec.type \in FloatTypes \ {"", "n"})
           THEN (IF FloatSpecOk(spec) THEN Ok(FormatFloat(AsFloat(val), spec))
                 ELSE Fail("ValueError"))
           ELSE IF IntSpecOk(spec)
           THEN Ok(FormatInt(IntNeg(val), IntMag(val), spec))
           ELSE Fail("ValueError")
      [] OTHER -> Fail("TypeError")

Format(val, chars, H) == FormatWith(val, chars, ParseSpec(chars), H)

(***************************************************************************)
(* The interpreter's state.                                                *)
(***************************************************************************)
VARIABLES
    script,     \* the script being run
    version,    \* sys.version_info of the interpreter: <<major, minor>>
    stack,      \* the call stack: frames [fn, pc, L, eval], the running one last
    G,          \* the module namespace (the globals of every function)
    H,          \* the heap: the lists, dicts and instances created so far
    stdout,     \* the writes to standard output, in order: [text, end]
    status,     \* "running", then "ok" (exit status 0) or "error" (1)
    exc,        \* the exception that ended the run, "" when none
    calls       \* history: the calls and returns so far, <<"call", fn, args>>
                \* and <<"return", fn, value>>

vars == <<script, version, stack, G, H, stdout, status, exc, calls>>

Scripts == {"hello", "string_formatting", "types_demo"}

\* The generic syntax of types_demo.py (def first[T], class Box[T]) is read by
\* Python 3.12 and later; the scripts name 3.14.
MinMinor == 12

MaxMinor == 14

Versions == {<<3, minor>> : minor \in MinMinor..MaxMinor}

\* The clock readings datetime.now() is given: the first and the last day
\* of February and of December of ClockYears years from 2024 on, in the
\* first and in the last hour of the day.
ClockYears == 2

ClockDays ==
    {[year |-> 2023 + y, month |-> m, day |-> d, hour |-> h, minute |-> 5,
      second |-> 59] :
        y \in 1..ClockYears, m \in {2, 12}, d \in {1, 28, 29, 31}, h \in {0, 23}}

Clock == {dt \in ClockDays : dt.day \in {1, DaysInMonth(dt.year, dt.month)}}

\* pc of a frame whose body has run to its end (the implicit return None)
END == 0

\* the frame of a call without arguments: no local is bound yet
NoLocals == <<>>

\* The names each module binds at its top level, before main() is called:
\* its imports and its def statements.
Globals(s) ==
    CASE s = "hello" ->
           [greet |-> "function", main |-> "function"]
      [] s = "string_formatting" ->
           [datetime |-> "class", Decimal |-> "class",
            basic_formatting |-> "function", number_formatting |-> "function",
            alignment_formatting |-> "function",
            advanced_formatting |-> "function",
            practical_examples |-> "function",
            comparison_example |-> "function", main |-> "function"]
      [] s = "types_demo" ->
           [demo_integers |-> "function", demo_floats |-> "function",
            demo_strings |-> "function", demo_booleans |-> "function",
            demo_type_conversion |-> "function", demo_generics |-> "function",
            main |-> "function"]

\* the line of the module's call of main(), under if __name__ == "__main__"
MainCall(s) ==
    CASE s = "hello" -> 36
      [] s = "string_formatting" -> 244
      [] s = "types_demo" -> 211

\* the first statement of main()
MainEntry(s) ==
    CASE s = "hello" -> 19
      [] s = "string_formatting" -> 227
      [] s = "types_demo" -> 193

Top == stack[Len(stack)]

\* What a statement reads and writes: the frame's locals L and the values
\* eval its expression has computed so far (the results of the calls it has
\* made), the globals G and the heap H.
Env == [L |-> Top.L, eval |-> Top.eval, G |-> G, H |-> H]

(***************************************************************************)
(* The effect of one step of a statement: where control goes, the frame,   *)
(* globals and heap after it, and the text it builds (parts, put together  *)
(* when the step is taken) with what becomes of it (io): "print" writes it *)
(* to standard output followed by end, "value" returns it as a str.        *)
(***************************************************************************)
Effect(kind, E, pc) ==
    [kind |-> kind, pc |-> pc, L |-> E.L, eval |-> E.eval, G |-> E.G, H |-> E.H,
     io |-> "", parts |-> <<>>, end |-> "", exc |-> "", val |-> PyNone,
     callee |-> "", entry |-> 0, args |-> NoLocals]

\* control moves on to line pc
Goto(E, pc) == Effect("next", E, pc)

\* an exception is raised (no script has a try statement: it ends the run)
Raise(E, x) == [Effect("raise", E, 0) EXCEPT !.exc = x]

\* return val
Return(E, val) == [Effect("return", E, 0) EXCEPT !.val = val]

\* return f"...": the value is the str the parts make
ReturnText(E, parts) ==
    [Effect("return", E, 0) EXCEPT !.io = "value", !.parts = parts]

\* callee(args) is called; the statement at line pc goes on, with the value
\* returned as the last of eval, when the call returns
Call(E, pc, callee, entry, args) ==
    [Effect("call", E, pc) EXCEPT !.callee = callee, !.entry = entry,
                                   !.args = args]

\* Store gone wrong: the name is bound in the module namespace
StoreGlobal(E, name, val) == [E EXCEPT !.G = (name :> val) @@ E.G]

\* name = val in a function body: no function of the scripts declares a
\* global or nonlocal name, so every assignment binds a local
Store(E, name, val) == [E EXCEPT !.L = (name :> val) @@ E.L]

Assign(E, pc, name, val) == Goto(Store(E, name, val), pc)

\* a new object on the heap; the reference to the k-th object allocated
\* from E on is Ref(E, k)
Alloc(E, obj) == [E EXCEPT !.H = Append(E.H, obj)]

Ref(E, k) == PyRef(Len(E.H) + k)

NewRef(E) == Ref(E, 1)

\* obj.name = val and obj.name for an instance obj
SetAttr(E, obj, name, val) ==
    [E EXCEPT !.H[obj.v].v = (name :> val) @@ @]

HasAttr(E, obj, name) == name \in DOMAIN E.H[obj.v].v

GetAttr(E, obj, name) == E.H[obj.v].v[name]

\* an instance without attributes yet
NoAttrs == <<>>

\* the statement has used the values of the calls it made
Used(E) == [E EXCEPT !.eval = <<>>]

\* a value of eval is kept by the statement for when a call returns
Push(E, val) == [E EXCEPT !.eval = Append(E.eval, val)]

\* The parts of the text a statement builds: a literal segment of an
\* f-string; a replacement field {val:spec}; a field {val!r:spec}; and a
\* str (or other value) that is written by its str().
Lit(text) == [k |-> "lit", text |-> text]

Fmt(val, spec) == [k |-> "fmt", val |-> val, spec |-> spec]

FmtR(val, spec) == [k |-> "repr", val |-> val, spec |-> spec]

Val(val) == Fmt(val, <<>>)

\* print(..., end=end): the parts are put together and the text is written,
\* followed by end
print_end(E, pc, parts, end) ==
    [Effect("next", E, pc) EXCEPT !.io = "print", !.parts = parts, !.end = end]

\* print(...)
print(E, pc, parts) == print_end(E, pc, parts, "\n")

\* the text of one part, or the exception formatting it raises
Piece(part, heap) ==
    CASE part.k = "lit" -> Ok(<<part.text>>)
      [] part.k \in {"fmt", "repr"} ->
           Format(IF part.k = "repr" THEN PyStr(Repr(part.val, heap))
                  ELSE part.val,
                  part.spec, heap)

\* the pieces p[lo..hi] in a row
RECURSIVE JoinOf(_, _, _)
JoinOf(p, lo, hi) ==
    IF lo > hi THEN <<>>
    ELSE IF lo = hi THEN p[lo].str
    ELSE JoinOf(p, lo, (lo + hi) \div 2) \o JoinOf(p, (lo + hi) \div 2 + 1, hi)

\* the pieces put together, left to right: the first that fails raises
Joined(p) ==
    IF \A i \in 1..Len(p) : p[i].ok THEN Ok(JoinOf(p, 1, Len(p)))
    ELSE Fail(p[CHOOSE i \in 1..Len(p) :
                    ~p[i].ok /\ \A j \in 1..(i - 1) : p[j].ok].exc)

Built(parts, heap) ==
    Joined(Tuple([i \in 1..Len(parts) |-> Piece(parts[i], heap)]))

\* a frame of callee, entered at line entry with the arguments bound
Frame(callee, entry, args) ==
    [fn |-> callee, pc |-> entry, L |-> args, eval |-> <<>>]

\* the stack with the running frame as the step with effect r leaves it
Stepped(r) ==
    [stack EXCEPT ![Len(stack)] = [@ EXCEPT !.pc = r.pc, !.L = r.L,
                                            !.eval = r.eval]]

\* the stack after the running frame returned val to its caller
Returned(val) ==
    IF Len(stack) = 1 THEN <<>>
    ELSE [SubSeq(stack, 1, Len(stack) - 1) EXCEPT ![Len(stack) - 1] =
              [@ EXCEPT !.eval = Append(@, val)]]

\* the value a return with effect r and text w returns
Value(r, w) == IF r.io = "value" THEN PyStr(w.str) ELSE r.val

\* One step of the running frame with effect r, whose text is w.
Step(r, w) ==
    /\ status = "running"
    /\ CASE ~w.ok \/ r.kind = "raise" ->
              /\ stack' = <<>>
              /\ status' = "error"
              /\ exc' = IF w.ok THEN r.exc ELSE w.exc
              /\ UNCHANGED <<G, H, stdout, calls>>
         [] w.ok /\ r.kind = "next" ->
              /\ stack' = Stepped(r)
              /\ G' = r.G
              /\ H' = r.H
              /\ stdout' = IF r.io = "print"
                           THEN Append(stdout, [text |-> Text(w.str), end |-> r.end])
                           ELSE stdout
              /\ UNCHANGED <<status, exc, calls>>
         [] w.ok /\ r.kind = "call" ->
              /\ stack' = Append(Stepped(r), Frame(r.callee, r.entry, r.args))
              /\ G' = r.G
              /\ H' = r.H
              /\ calls' = Append(calls, <<"call", r.callee, r.args>>)
              /\ UNCHANGED <<stdout, status, exc>>
         [] w.ok /\ r.kind = "return" ->
              /\ stack' = Returned(Value(r, w))
              /\ G' = r.G
              /\ H' = r.H
              /\ calls' = Append(calls, <<"return", Top.fn, Value(r, w)>>)
              /\ status' = IF Len(stack) = 1 THEN "ok" ELSE status
              /\ UNCHANGED <<stdout, exc>>
    /\ UNCHANGED <<script, version>>

\* the effect is computed, then its text, then the step is taken
Exec(r) == Then(r, Step(r, Built(r.parts, r.H)))

\* the frame of function fn of script s is running
Running(s, fn) ==
    /\ status = "running"
    /\ script = s
    /\ stack # <<>>
    /\ Top.fn = fn

Init ==
    /\ script \in Scripts
    /\ version \in Versions
    /\ stack = <<Frame("<module>", MainCall(script), NoLocals)>>
    /\ G = Globals(script)
    /\ H = <<>>
    /\ stdout = <<>>
    /\ status = "running"
    /\ exc = ""
    /\ calls = <<>>

\* The module's last statement: if __name__ == "__main__": main(), an
\* expression statement, whose value is dropped
module_step(pc, E) ==
    IF pc = END THEN Return(E, PyNone)
    ELSE IF E.eval = <<>> THEN Call(E, pc, "main", MainEntry(script), NoLocals)
    ELSE Goto(Used(E), END)

Module ==
    /\ status = "running" /\ stack # <<>> /\ Top.fn = "<module>"
    /\ Exec(module_step(Top.pc, Env))

\* CallStmt gone wrong: the statement is passed over, the function not called
CallStmtSkipped(E, pc, next, callee, entry) == Goto(E, next)

\* callee() as an expression statement at line pc: the call, then, its
\* value dropped, on to line next
CallStmt(E, pc, next, callee, entry) ==
    IF E.eval = <<>> THEN Call(E, pc, callee, entry, NoLocals)
    ELSE Goto(Used(E), next)

\* The iterator of a for statement: what it runs over (a list, by reference,
\* or the sequence a range yields) and how many items it has yielded.  It is
\* held on the frame's eval while the loop runs.
Iter(of) == [t |-> "iterator", v |-> [of |-> of, i |-> 0]]

PyRange(start, stop, step) == [t |-> "range", v |-> Range(start, stop, step)]

\* the items the iterator it runs over, as they are now
Items(it, heap) == Deref(it.v.of, heap).v

Advanced(it) == [it EXCEPT !.v.i = @ + 1]

\* names = item: one name takes the item, several unpack a tuple of as many
RECURSIVE Bound(_, _, _, _)
Bound(E, names, vals, i) ==
    IF i > Len(names) THEN E
    ELSE Bound(Store(E, names[i], vals[i]), names, vals, i + 1)

Unpacks(names, item) ==
    Len(names) = 1 \/ (item.t = "tuple" /\ Len(item.v) = Len(names))

Unpacked(E, names, item) ==
    IF Len(names) = 1 THEN Store(E, names[1], item)
    ELSE Bound(E, names, item.v, 1)

\* for names in iterable: at line pc.  The first step makes the iterator;
\* each later one takes the next item and enters the body, or, the iterator
\* exhausted, leaves the loop for line after.
ForNext(E, body, after, names, it, items) ==
    IF it.v.i >= Len(items) THEN Goto(Used(E), after)
    ELSE IF ~Unpacks(names, items[it.v.i + 1]) THEN Raise(E, "ValueError")
    ELSE Goto(Unpacked([E EXCEPT !.eval = <<Advanced(it)>>], names,
                       items[it.v.i + 1]), body)

For(E, pc, body, after, names, iterable) ==
    IF E.eval = <<>> THEN Goto(Push(E, Iter(iterable)), pc)
    ELSE ForNext(E, body, after, names, E.eval[1], Items(E.eval[1], E.H))

\* a + b and a * b of ints and floats: an int operand of a float operation
\* is converted to float
IsNumber(a) == a.t \in {"int", "float"}

ToFloat(a) == IF a.t = "float" THEN a.v ELSE IntToFloat(a.v)

PyAdd(a, b) ==
    IF a.t = "int" /\ b.t = "int" THEN PyInt(a.v + b.v)
    ELSE PyFloat(FAdd(ToFloat(a), ToFloat(b)))

PyMul(a, b) ==
    IF a.t = "int" /\ b.t = "int" THEN PyInt(a.v * b.v)
    ELSE PyFloat(FMul(ToFloat(a), ToFloat(b)))

\* IntOfFloat gone wrong: x is rounded to the nearest int
IntOfFloatRounded(x) ==
    IF x.s = 1 THEN PyInt(-BigToInt(ScaledRound(x, 0)))
    ELSE IntOfBig(ScaledRound(x, 0))

\* int(x) of a float x: truncation toward zero
IntOfFloat(x) ==
    IF x.s = 1 THEN PyInt(-BigToInt(FTruncMag(x))) ELSE IntOfBig(FTruncMag(x))

\* a and b, a or b (the value of the operand that decides), not a
PyAnd(a, b, heap) == IF Truthy(a, heap) THEN b ELSE a

PyOr(a, b, heap) == IF Truthy(a, heap) THEN a ELSE b

PyNot(a, heap) == PyBool(~Truthy(a, heap))

\* the value of the digits s in base b, as an integer literal 0b.., 0o..,
\* 0x.. of the source writes it
RECURSIVE IntLiteral(_, _)
IntLiteral(s, b) ==
    IF s = <<>> THEN 0
    ELSE b * IntLiteral(SubSeq(s, 1, Len(s) - 1), b)
         + (CHOOSE d \in 0..15 :
                DigitChar[d + 1] = MapCase(s[Len(s)], UpperCase, LowerCase))

\* type(val).__name__
TypeName(val, heap) ==
    IF Deref(val, heap).t = "long" THEN "int" ELSE Deref(val, heap).t

\* c * n as a str
Line(c, n) == PyStr(Rep(c, n))

(***************************************************************************)
(* src/01_getting_started/hello.py                                         *)
(***************************************************************************)
\* greet_step gone wrong: the exclamation mark is missing
greet_step_plain(pc, E) ==
    CASE pc = 14 -> ReturnText(E, <<Lit("Hello, "), Val(E.L.name)>>)

\* def greet(name): return f"Hello, {name}!"
greet_step(pc, E) ==
    CASE pc = 14 -> ReturnText(E, <<Lit("Hello, "), Val(E.L.name), Lit("!")>>)

greet ==
    /\ Running("hello", "greet")
    /\ Exec(greet_step(Top.pc, Env))

hello_main_step(pc, E, ver) ==
    CASE pc = 19 -> print(E, 20, <<Lit("Hello, World!")>>)
      [] pc = 20 -> print(E, 23, <<Lit("Welcome to Python 3.14!")>>)
      [] pc = 23 -> Assign(E, 24, "name", PyStr(<<"P", "y", "t", "h", "o", "n", " ", "L", "e", "a", "r", "n", "e", "r">>))
      [] pc = 24 ->
           IF E.eval = <<>>
           THEN Call(E, 24, "greet", 14, [name |-> E.L.name])
           ELSE Assign(Used(E), 25, "message", E.eval[1])
      [] pc = 25 -> print(E, 28, <<Val(E.L.message)>>)
      [] pc = 28 -> Assign(E, 29, "result", PyInt(2 + 2))
      [] pc = 29 -> print(E, 32, <<Lit("2 + 2 = "), Val(E.L.result)>>)
      [] pc = 32 -> Assign(E, 33, "sys",
                           [t |-> "module",
                            v |-> [version_info |-> [major |-> PyInt(ver[1]),
                                                     minor |-> PyInt(ver[2])]]])
      [] pc = 33 -> print(E, END,
                          <<Lit("\nYou are using Python "),
                            Val(E.L.sys.v.version_info.major), Lit("."),
                            Val(E.L.sys.v.version_info.minor)>>)
      [] pc = END -> Return(E, PyNone)

hello_main ==
    /\ Running("hello", "main")
    /\ Exec(hello_main_step(Top.pc, Env, version))

(***************************************************************************)
(* src/02_basic_syntax/string_formatting.py                                *)
(***************************************************************************)
basic_formatting_step(pc, E) ==
    CASE pc = 14 -> print(E, 15, <<Val(Line("=", 60))>>)
      [] pc = 15 -> print(E, 16, <<Lit("BASIC F-STRING FORMATTING")>>)
      [] pc = 16 -> print(E, 18, <<Val(Line("=", 60))>>)
      [] pc = 18 -> Assign(E, 19, "name", PyStr(<<"A", "l", "i", "c", "e">>))
      [] pc = 19 -> Assign(E, 20, "age", PyInt(30))
      [] pc = 20 -> Assign(E, 22, "city", PyStr(<<"N", "e", "w", " ", "Y", "o", "r", "k">>))
      [] pc = 22 -> print(E, 23, <<Lit("\nName: "), Val(E.L.name)>>)
      [] pc = 23 -> print(E, 24, <<Lit("Age: "), Val(E.L.age)>>)
      [] pc = 24 -> print(E, 25, <<Lit("City: "), Val(E.L.city)>>)
      [] pc = 25 -> print(E, 28,
                          <<Lit("Full info: "), Val(E.L.name), Lit(" is "),
                            Val(E.L.age), Lit(" years old and lives in "),
                            Val(E.L.city)>>)
      [] pc = 28 -> print(E, 29,
                          <<Lit("\nNext year "), Val(E.L.name), Lit(" will be "),
                            Val(PyInt(E.L.age.v + 1))>>)
      [] pc = 29 -> print(E, 30, <<Lit("Uppercase name: "),
                                   Val(PyStr(StrUpper(E.L.name.v)))>>)
      [] pc = 30 -> print(E, END, <<Lit("Name length: "),
                                    Val(PyInt(StrLen(E.L.name.v)))>>)
      [] pc = END -> Return(E, PyNone)

basic_formatting ==
    /\ Running("string_formatting", "basic_formatting")
    /\ Exec(basic_formatting_step(Top.pc, Env))

number_formatting_step(pc, E) ==
    CASE pc = 34 -> print(E, 35, <<Val(PyStr(<<"\n">> \o Rep("=", 60)))>>)
      [] pc = 35 -> print(E, 36, <<Lit("NUMBER FORMATTING")>>)
      [] pc = 36 -> print(E, 38, <<Val(Line("=", 60))>>)
      [] pc = 38 -> Assign(E, 39, "pi", FloatLit(<<"3", ".", "1", "4", "1", "5", "9", "2", "6", "5", "3", "5", "9">>))
      [] pc = 39 -> Assign(E, 40, "large_num", FloatLit(<<"1", "2", "3", "4", "5", "6", "7", ".", "8", "9">>))
      [] pc = 40 -> Assign(E, 42, "percentage", FloatLit(<<"0", ".", "7", "5", "5">>))
      [] pc = 42 -> print(E, 43, <<Lit("\n--- Decimal Places ---")>>)
      [] pc = 43 -> print(E, 44, <<Lit("Pi (original): "), Val(E.L.pi)>>)
      [] pc = 44 -> print(E, 45, <<Lit("Pi (2 decimals): "), Fmt(E.L.pi, <<".", "2", "f">>)>>)
      [] pc = 45 -> print(E, 46, <<Lit("Pi (4 decimals): "), Fmt(E.L.pi, <<".", "4", "f">>)>>)
      [] pc = 46 -> print(E, 48, <<Lit("Pi (6 decimals): "), Fmt(E.L.pi, <<".", "6", "f">>)>>)
      [] pc = 48 -> print(E, 49, <<Lit("\n--- Thousands Separator ---")>>)
      [] pc = 49 -> print(E, 50, <<Lit("Large number: "),
                                   Fmt(E.L.large_num, <<",", ".", "2", "f">>)>>)
      [] pc = 50 -> print(E, 52, <<Lit("As integer: "),
                                   Fmt(IntOfFloat(E.L.large_num.v), <<",">>)>>)
      [] pc = 52 -> print(E, 53, <<Lit("\n--- Percentage ---")>>)
      [] pc = 53 -> print(E, 54, <<Lit("Percentage: "),
                                   Fmt(E.L.percentage, <<".", "1", "%">>)>>)
      [] pc = 54 -> print(E, 56, <<Lit("Percentage (2 decimals): "),
                                   Fmt(E.L.percentage, <<".", "2", "%">>)>>)
      [] pc = 56 -> print(E, 57, <<Lit("\n--- Scientific Notation ---")>>)
      [] pc = 57 -> print(E, 58, <<Lit("Scientific (2 decimals): "),
                                   Fmt(E.L.large_num, <<".", "2", "e">>)>>)
      [] pc = 58 -> print(E, 60, <<Lit("Scientific (4 decimals): "),
                                   Fmt(E.L.large_num, <<".", "4", "e">>)>>)
      [] pc = 60 -> print(E, 61, <<Lit("\n--- Zero Padding ---")>>)
      [] pc = 61 -> Assign(E, 62, "num", PyInt(42))
      [] pc = 62 -> print(E, 63, <<Lit("Zero-padded (5 digits): "),
                                   Fmt(E.L.num, <<"0", "5", "d">>)>>)
      [] pc = 63 -> print(E, 65, <<Lit("Zero-padded (8 digits): "),
                                   Fmt(E.L.num, <<"0", "8", "d">>)>>)
      [] pc = 65 -> print(E, 66, <<Lit("\n--- Sign Display ---")>>)
      [] pc = 66 -> Assign(E, 67, "positive", PyInt(42))
      [] pc = 67 -> Assign(E, 68, "negative", PyInt(-42))
      [] pc = 68 -> print(E, 69, <<Lit("Always show sign: "),
                                   Fmt(E.L.positive, <<"+", "d">>)>>)
      [] pc = 69 -> print(E, 70, <<Lit("Always show sign: "),
                                   Fmt(E.L.negative, <<"+", "d">>)>>)
      [] pc = 70 -> print(E, 71, <<Lit("Space for positive: "),
                                   Fmt(E.L.positive, <<" ", "d">>)>>)
      [] pc = 71 -> print(E, END, <<Lit("Space for positive: "),
                                    Fmt(E.L.negative, <<" ", "d">>)>>)
      [] pc = END -> Return(E, PyNone)

number_formatting ==
    /\ Running("string_formatting", "number_formatting")
    /\ Exec(number_formatting_step(Top.pc, Env))

\* the specification {width} leaves after align: a nested replacement field
\* is replaced by format(width, "")
Nested(before, val, after, heap) == before \o Str(val, heap) \o after

alignment_formatting_step(pc, E) ==
    CASE pc = 75 -> print(E, 76, <<Val(PyStr(<<"\n">> \o Rep("=", 60)))>>)
      [] pc = 76 -> print(E, 77, <<Lit("TEXT ALIGNMENT")>>)
      [] pc = 77 -> print(E, 79, <<Val(Line("=", 60))>>)
      [] pc = 79 -> Assign(E, 80, "text", PyStr(<<"P", "y", "t", "h", "o", "n">>))
      [] pc = 80 -> Assign(E, 82, "width", PyInt(20))
      [] pc = 82 -> print(E, 83, <<Lit("\n--- Basic Alignment ---")>>)
      [] pc = 83 -> print(E, 84,
                          <<Lit("Left:   '"),
                            Fmt(E.L.text, Nested(<<"<">>, E.L.width, <<>>, E.H)),
                            Lit("'")>>)
      [] pc = 84 -> print(E, 85,
                          <<Lit("Right:  '"),
                            Fmt(E.L.text, Nested(<<">">>, E.L.width, <<>>, E.H)),
                            Lit("'")>>)
      [] pc = 85 -> print(E, 87,
                          <<Lit("Center: '"),
                            Fmt(E.L.text, Nested(<<"^">>, E.L.width, <<>>, E.H)),
                            Lit("'")>>)
      [] pc = 87 -> print(E, 88, <<Lit("\n--- Alignment with Fill Character ---")>>)
      [] pc = 88 -> print(E, 89,
                          <<Lit("Fill with dots:   '"),
                            Fmt(E.L.text, Nested(<<".", "<">>, E.L.width, <<>>, E.H)),
                            Lit("'")>>)
      [] pc = 89 -> print(E, 90,
                          <<Lit("Fill with dashes: '"),
                            Fmt(E.L.text, Nested(<<"-", ">">>, E.L.width, <<>>, E.H)),
                            Lit("'")>>)
      [] pc = 90 -> print(E, 92,
                          <<Lit("Fill with stars:  '"),
                            Fmt(E.L.text, Nested(<<"*", "^">>, E.L.width, <<>>, E.H)),
                            Lit("'")>>)
      [] pc = 92 -> print(E, 93, <<Lit("\n--- Table-like Formatting ---")>>)
      [] pc = 93 ->
           Assign(Alloc(E, ListObj(
                      <<PyTuple(<<PyStr(<<"A", "p", "p", "l", "e">>), PyInt(10), FloatLit(<<"1", ".", "5", "0">>)>>),
                        PyTuple(<<PyStr(<<"B", "a", "n", "a", "n", "a">>), PyInt(25), FloatLit(<<"0", ".", "7", "5">>)>>),
                        PyTuple(<<PyStr(<<"O", "r", "a", "n", "g", "e">>), PyInt(15), FloatLit(<<"1", ".", "2", "5">>)>>)>>)),
                  99, "items", NewRef(E))
      [] pc = 99 -> print(E, 100,
                          <<Fmt(PyStr(<<"I", "t", "e", "m">>), <<"<", "1", "2">>), Lit(" "),
                            Fmt(PyStr(<<"Q", "t", "y">>), <<">", "6">>), Lit(" "),
                            Fmt(PyStr(<<"P", "r", "i", "c", "e">>), <<">", "8">>)>>)
      [] pc = 100 -> print(E, 101, <<Val(Line("-", 28))>>)
      [] pc = 101 -> For(E, 101, 102, END, <<"item", "qty", "price">>, E.L.items)
      [] pc = 102 -> print(E, 101,
                           <<Fmt(E.L.item, <<"<", "1", "2">>), Lit(" "),
                             Fmt(E.L.qty, <<">", "6">>), Lit(" $"),
                             Fmt(E.L.price, <<">", "7", ".", "2", "f">>)>>)
      [] pc = END -> Return(E, PyNone)

alignment_formatting ==
    /\ Running("string_formatting", "alignment_formatting")
    /\ Exec(alignment_formatting_step(Top.pc, Env))

advanced_formatting_step(pc, E, clock) ==
    CASE pc = 106 -> print(E, 107, <<Val(PyStr(<<"\n">> \o Rep("=", 60)))>>)
      [] pc = 107 -> print(E, 108, <<Lit("ADVANCED FORMATTING")>>)
      [] pc = 108 -> print(E, 111, <<Val(Line("=", 60))>>)
      [] pc = 111 -> Assign(E, 112, "x", PyInt(42))
      [] pc = 112 -> Assign(E, 113, "y", PyInt(100))
      [] pc = 113 -> print(E, 114,
                           <<Lit("\n--- Debug Formatting (shows variable name) ---")>>)
      [] pc = 114 -> print(E, 115, <<Lit("x="), FmtR(E.L.x, <<>>)>>)
      [] pc = 115 -> print(E, 116, <<Lit("y="), FmtR(E.L.y, <<>>)>>)
      [] pc = 116 -> print(E, 119, <<Lit("x + y="),
                                     FmtR(PyAdd(E.L.x, E.L.y), <<>>)>>)
      [] pc = 119 -> Assign(E, 120, "value", FloatLit(<<"1", "2", "3", ".", "4", "5", "6", "7", "8", "9">>))
      [] pc = 120 -> Assign(E, 121, "precision", PyInt(2))
      [] pc = 121 -> print(E, 122, <<Lit("\n--- Nested Formatting ---")>>)
      [] pc = 122 -> print(E, 124,
                           <<Lit("Value with "), Val(E.L.precision),
                             Lit(" decimals: "),
                             Fmt(E.L.value,
                                 Nested(<<".">>, E.L.precision, <<"f">>, E.H))>>)
      [] pc = 124 -> Assign(E, 125, "precision", PyInt(4))
      [] pc = 125 -> print(E, 128,
                           <<Lit("Value with "), Val(E.L.precision),
                             Lit(" decimals: "),
                             Fmt(E.L.value,
                                 Nested(<<".">>, E.L.precision, <<"f">>, E.H))>>)
      [] pc = 128 -> Assign(E, 129, "now", PyDatetime(clock))
      [] pc = 129 -> print(E, 130, <<Lit("\n--- Datetime Formatting ---")>>)
      [] pc = 130 -> print(E, 131, <<Lit("Full: "),
                                     Fmt(E.L.now, <<"%", "Y", "-", "%", "m", "-", "%", "d", " ", "%", "H", ":", "%", "M", ":", "%", "S">>)>>)
      [] pc = 131 -> print(E, 132, <<Lit("Date only: "),
                                     Fmt(E.L.now, <<"%", "Y", "-", "%", "m", "-", "%", "d">>)>>)
      [] pc = 132 -> print(E, 133, <<Lit("Time only: "),
                                     Fmt(E.L.now, <<"%", "H", ":", "%", "M", ":", "%", "S">>)>>)
      [] pc = 133 -> print(E, 134, <<Lit("Custom: "),
                                     Fmt(E.L.now, <<"%", "B", " ", "%", "d", ",", " ", "%", "Y">>)>>)
      [] pc = 134 -> print(E, 137, <<Lit("Weekday: "), Fmt(E.L.now, <<"%", "A">>)>>)
      [] pc = 137 -> Assign(E, 138, "num", PyInt(42))
      [] pc = 138 -> print(E, 139, <<Lit("\n--- Number Base Formatting ---")>>)
      [] pc = 139 -> print(E, 140, <<Lit("Decimal: "), Val(E.L.num)>>)
      [] pc = 140 -> print(E, 141,
                           <<Lit("Binary: "), Fmt(E.L.num, <<"b">>), Lit(" (or "),
                             Val(PyStr(Bin(E.L.num.v))), Lit(")")>>)
      [] pc = 141 -> print(E, 142,
                           <<Lit("Octal: "), Fmt(E.L.num, <<"o">>), Lit(" (or "),
                             Val(PyStr(Oct(E.L.num.v))), Lit(")")>>)
      [] pc = 142 -> print(E, 143,
                           <<Lit("Hex (lowercase): "), Fmt(E.L.num, <<"x">>),
                             Lit(" (or "), Val(PyStr(Hex(E.L.num.v))), Lit(")")>>)
      [] pc = 143 -> print(E, END, <<Lit("Hex (uppercase): "),
                                     Fmt(E.L.num, <<"X">>)>>)
      [] pc = END -> Return(E, PyNone)

\* datetime.now() reads the clock: any reading
advanced_formatting ==
    /\ Running("string_formatting", "advanced_formatting")
    /\ \E clock \in Clock : Exec(advanced_formatting_step(Top.pc, Env, clock))

practical_examples_step(pc, E) ==
    CASE pc = 147 -> print(E, 148, <<Val(PyStr(<<"\n">> \o Rep("=", 60)))>>)
      [] pc = 148 -> print(E, 149, <<Lit("PRACTICAL EXAMPLES")>>)
      [] pc = 149 -> print(E, 152, <<Val(Line("=", 60))>>)
      [] pc = 152 -> print(E, 153, <<Lit("\n--- Invoice ---")>>)
      [] pc = 153 ->
           Assign(Alloc(E, ListObj(
                      <<PyTuple(<<PyStr(<<"P", "y", "t", "h", "o", "n", " ", "P", "r", "o", "g", "r", "a", "m", "m", "i", "n", "g", " ", "B", "o", "o", "k">>), PyInt(2),
                                  FloatLit(<<"2", "9", ".", "9", "9">>)>>),
                        PyTuple(<<PyStr(<<"C", "o", "d", "e", " ", "E", "d", "i", "t", "o", "r", " ", "L", "i", "c", "e", "n", "s", "e">>), PyInt(1),
                                  FloatLit(<<"4", "9", ".", "9", "9">>)>>),
                        PyTuple(<<PyStr(<<"O", "n", "l", "i", "n", "e", " ", "C", "o", "u", "r", "s", "e">>), PyInt(1),
                                  FloatLit(<<"8", "9", ".", "9", "9">>)>>)>>)),
                  159, "items", NewRef(E))
      [] pc = 159 -> print(E, 160,
                           <<Fmt(PyStr(<<"I", "t", "e", "m">>), <<"<", "2", "5">>), Lit(" "),
                             Fmt(PyStr(<<"Q", "t", "y">>), <<">", "5">>), Lit(" "),
                             Fmt(PyStr(<<"P", "r", "i", "c", "e">>), <<">", "1", "0">>), Lit(" "),
                             Fmt(PyStr(<<"T", "o", "t", "a", "l">>), <<">", "1", "0">>)>>)
      [] pc = 160 -> print(E, 162, <<Val(Line("-", 52))>>)
      [] pc = 162 -> Assign(E, 163, "subtotal", PyInt(0))
      [] pc = 163 -> For(E, 163, 164, 168, <<"item", "qty", "price">>, E.L.items)
      [] pc = 164 -> Assign(E, 165, "total", PyMul(E.L.qty, E.L.price))
      [] pc = 165 -> Assign(E, 166, "subtotal", PyAdd(E.L.subtotal, E.L.total))
      [] pc = 166 -> print(E, 163,
                           <<Fmt(E.L.item, <<"<", "2", "5">>), Lit(" "),
                             Fmt(E.L.qty, <<">", "5">>), Lit(" $"),
                             Fmt(E.L.price, <<">", "9", ".", "2", "f">>), Lit(" $"),
                             Fmt(E.L.total, <<">", "9", ".", "2", "f">>)>>)
      [] pc = 168 -> Assign(E, 169, "tax",
                            PyMul(E.L.subtotal, FloatLit(<<"0", ".", "0", "8", "5">>)))
      [] pc = 169 -> Assign(E, 171, "total", PyAdd(E.L.subtotal, E.L.tax))
      [] pc = 171 -> print(E, 172, <<Val(Line("-", 52))>>)
      [] pc = 172 -> print(E, 173,
                           <<Fmt(PyStr(<<"S", "u", "b", "t", "o", "t", "a", "l", ":">>), <<"<", "4", "2">>), Lit(" $"),
                             Fmt(E.L.subtotal, <<">", "9", ".", "2", "f">>)>>)
      [] pc = 173 -> print(E, 174,
                           <<Fmt(PyStr(<<"T", "a", "x", " ", "(", "8", ".", "5", "%", ")", ":">>), <<"<", "4", "2">>), Lit(" $"),
                             Fmt(E.L.tax, <<">", "9", ".", "2", "f">>)>>)
      [] pc = 174 -> print(E, 177,
                           <<Fmt(PyStr(<<"T", "o", "t", "a", "l", ":">>), <<"<", "4", "2">>), Lit(" $"),
                             Fmt(E.L.total, <<">", "9", ".", "2", "f">>)>>)
      [] pc = 177 -> print(E, 178, <<Lit("\n--- Progress Bar ---")>>)
      [] pc = 178 -> For(E, 178, 179, 182, <<"i">>, PyRange(0, 101, 10))
      [] pc = 179 -> Assign(E, 180, "filled", PyInt(FloorDiv(E.L.i.v, 2)))
      [] pc = 180 -> Assign(E, 181, "bar",
                            PyStr(Rep("█", E.L.filled.v)
                                  \o Rep("░", 50 - E.L.filled.v)))
      [] pc = 181 -> print_end(E, 178,
                               <<Lit("\r["), Val(E.L.bar), Lit("] "),
                                 Fmt(E.L.i, <<">", "3">>), Lit("%")>>,
                               "")
      [] pc = 182 -> print(E, 185, <<>>)
      [] pc = 185 -> print(E, 186, <<Lit("\n--- Stock Prices ---")>>)
      [] pc = 186 ->
           Assign(Alloc(E, ListObj(
                      <<PyTuple(<<PyStr(<<"A", "A", "P", "L">>), FloatLit(<<"1", "5", "0", ".", "2", "5">>),
                                  FloatLit(<<"2", ".", "5">>)>>),
                        PyTuple(<<PyStr(<<"G", "O", "O", "G", "L">>), FloatLit(<<"2", "8", "0", "0", ".", "5", "0">>),
                                  FloatLit(<<"-", "1", ".", "3">>)>>),
                        PyTuple(<<PyStr(<<"T", "S", "L", "A">>), FloatLit(<<"7", "2", "5", ".", "7", "5">>),
                                  FloatLit(<<"5", ".", "8">>)>>)>>)),
                  192, "stocks", NewRef(E))
      [] pc = 192 -> print(E, 193,
                           <<Fmt(PyStr(<<"S", "y", "m", "b", "o", "l">>), <<"<", "8">>), Lit(" "),
                             Fmt(PyStr(<<"P", "r", "i", "c", "e">>), <<">", "1", "0">>), Lit(" "),
                             Fmt(PyStr(<<"C", "h", "a", "n", "g", "e">>), <<">", "1", "0">>)>>)
      [] pc = 193 -> print(E, 195, <<Val(Line("-", 30))>>)
      [] pc = 195 -> For(E, 195, 196, END, <<"symbol", "price", "change">>,
                         E.L.stocks)
      [] pc = 196 -> Assign(E, 197, "sign",
                            IF FLess(FZero(0), ToFloat(E.L.change))
                            THEN PyStr(<<"+">>) ELSE PyStr(<<>>))
      [] pc = 197 -> print(E, 195,
                           <<Fmt(E.L.symbol, <<"<", "8">>), Lit(" $"),
                             Fmt(E.L.price, <<">", "9", ".", "2", "f">>), Lit(" "),
                             Val(E.L.sign), Fmt(E.L.change, <<">", "8", ".", "2", "f">>),
                             Lit("%")>>)
      [] pc = END -> Return(E, PyNone)

practical_examples ==
    /\ Running("string_formatting", "practical_examples")
    /\ Exec(practical_examples_step(Top.pc, Env))

comparison_example_step(pc, E) ==
    CASE pc = 201 -> print(E, 202, <<Val(PyStr(<<"\n">> \o Rep("=", 60)))>>)
      [] pc = 202 -> print(E, 203, <<Lit("FORMATTING METHOD COMPARISON")>>)
      [] pc = 203 -> print(E, 205, <<Val(Line("=", 60))>>)
      [] pc = 205 -> Assign(E, 206, "name", PyStr(<<"A", "l", "i", "c", "e">>))
      [] pc = 206 -> Assign(E, 208, "age", PyInt(30))
      [] pc = 208 -> print(E, 209, <<Lit("\n--- Old % formatting (avoid) ---")>>)
      \* "... %s ... %d ..." % (name, age): str(name), and age as a decimal
      [] pc = 209 -> print(E, 211,
                           <<Lit("Hello, "), Val(E.L.name), Lit("! You are "),
                             Fmt(E.L.age, <<"d">>), Lit(" years old.")>>)
      [] pc = 211 -> print(E, 212,
                           <<Lit("\n--- .format() method (okay but verbose) ---")>>)
      \* "... {} ... {} ...".format(name, age), and with {0} {1}, {name} {age}
      [] pc = 212 -> print(E, 213,
                           <<Lit("Hello, "), Val(E.L.name), Lit("! You are "),
                             Val(E.L.age), Lit(" years old.")>>)
      [] pc = 213 -> print(E, 214,
                           <<Lit("Hello, "), Val(E.L.name), Lit("! You are "),
                             Val(E.L.age), Lit(" years old.")>>)
      [] pc = 214 -> print(E, 216,
                           <<Lit("Hello, "), Val(E.L.name), Lit("! You are "),
                             Val(E.L.age), Lit(" years old.")>>)
      [] pc = 216 -> print(E, 217,
                           <<Lit("\n--- f-strings (preferred, Python 3.6+) ---")>>)
      [] pc = 217 -> print(E, 219,
                           <<Lit("Hello, "), Val(E.L.name), Lit("! You are "),
                             Val(E.L.age), Lit(" years old.")>>)
      [] pc = 219 -> print(E, 220, <<Lit("\n"), Lit("\\u2713"), Lit(" f-strings are:")>>)
      [] pc = 220 -> print(E, 221, <<Lit("  - More readable")>>)
      [] pc = 221 -> print(E, 222, <<Lit("  - Faster")>>)
      [] pc = 222 -> print(E, 223, <<Lit("  - Support expressions")>>)
      [] pc = 223 -> print(E, END, <<Lit("  - Modern Python standard")>>)
      [] pc = END -> Return(E, PyNone)

comparison_example ==
    /\ Running("string_formatting", "comparison_example")
    /\ Exec(comparison_example_step(Top.pc, Env))

string_formatting_main_step(pc, E) ==
    CASE pc = 227 -> print(E, 228, <<Lit("\n")>>)
      [] pc = 228 -> print(E, 229,
                           <<Val(PyStr(<<"\\u2554">> \o Rep("\\u2550", 58) \o <<"\\u2557">>))>>)
      [] pc = 229 -> print(E, 230,
                           <<Val(PyStr(<<"\\u2551">> \o Rep(" ", 12)
                                       \o <<"PYTHON STRING FORMATTING GUIDE">>
                                       \o Rep(" ", 16) \o <<"\\u2551">>))>>)
      [] pc = 230 -> print(E, 232,
                           <<Val(PyStr(<<"\\u255a">> \o Rep("\\u2550", 58) \o <<"\\u255d">>))>>)
      [] pc = 232 -> CallStmt(E, 232, 233, "basic_formatting", 14)
      [] pc = 233 -> CallStmt(E, 233, 234, "number_formatting", 34)
      [] pc = 234 -> CallStmt(E, 234, 235, "alignment_formatting", 75)
      [] pc = 235 -> CallStmt(E, 235, 236, "advanced_formatting", 106)
      [] pc = 236 -> CallStmt(E, 236, 237, "practical_examples", 147)
      [] pc = 237 -> CallStmt(E, 237, 239, "comparison_example", 201)
      [] pc = 239 -> print(E, 240, <<Val(PyStr(<<"\n">> \o Rep("=", 60)))>>)
      [] pc = 240 -> print(E, 241, <<Lit("FORMATTING GUIDE COMPLETE")>>)
      [] pc = 241 -> print(E, END, <<Val(PyStr(Rep("=", 60) \o <<"\n">>))>>)
      [] pc = END -> Return(E, PyNone)

string_formatting_main ==
    /\ Running("string_formatting", "main")
    /\ Exec(string_formatting_main_step(Top.pc, Env))

(***************************************************************************)
(* src/02_basic_syntax/types_demo.py                                       *)
(***************************************************************************)
demo_integers_step(pc, E) ==
    CASE pc = 12 -> print(E, 13, <<Val(Line("=", 50))>>)
      [] pc = 13 -> print(E, 14, <<Lit("INTEGER DEMONSTRATION")>>)
      [] pc = 14 -> print(E, 17, <<Val(Line("=", 50))>>)
      [] pc = 17 -> Goto(Unpacked(E, <<"a", "b">>, PyTuple(<<PyInt(15), PyInt(4)>>)), 18)
      [] pc = 18 -> print(E, 19, <<Lit("\na = "), Val(E.L.a), Lit(", b = "),
                                   Val(E.L.b)>>)
      [] pc = 19 -> print(E, 20,
                          <<Lit("Addition: "), Val(E.L.a), Lit(" + "), Val(E.L.b),
                            Lit(" = "), Val(PyAdd(E.L.a, E.L.b))>>)
      [] pc = 20 -> print(E, 21,
                          <<Lit("Subtraction: "), Val(E.L.a), Lit(" - "),
                            Val(E.L.b), Lit(" = "), Val(PyInt(E.L.a.v - E.L.b.v))>>)
      [] pc = 21 -> print(E, 22,
                          <<Lit("Multiplication: "), Val(E.L.a), Lit(" * "),
                            Val(E.L.b), Lit(" = "), Val(PyMul(E.L.a, E.L.b))>>)
      [] pc = 22 ->
           IF E.L.b.v = 0 THEN Raise(E, "ZeroDivisionError")
           ELSE print(E, 23,
                      <<Lit("Division: "), Val(E.L.a), Lit(" / "), Val(E.L.b),
                        Lit(" = "),
                        Val(PyFloat(IntTrueDiv(E.L.a.v, E.L.b.v)))>>)
      [] pc = 23 ->
           IF E.L.b.v = 0 THEN Raise(E, "ZeroDivisionError")
           ELSE print(E, 24,
                      <<Lit("Floor division: "), Val(E.L.a), Lit(" // "),
                        Val(E.L.b), Lit(" = "),
                        Val(PyInt(FloorDiv(E.L.a.v, E.L.b.v)))>>)
      [] pc = 24 ->
           IF E.L.b.v = 0 THEN Raise(E, "ZeroDivisionError")
           ELSE print(E, 25,
                      <<Lit("Modulo: "), Val(E.L.a), Lit(" % "), Val(E.L.b),
                        Lit(" = "), Val(PyInt(Modulo(E.L.a.v, E.L.b.v)))>>)
      [] pc = 25 -> print(E, 28,
                          <<Lit("Exponentiation: "), Val(E.L.a), Lit(" ** "),
                            Val(E.L.b), Lit(" = "), Val(IntPow(E.L.a.v, E.L.b.v))>>)
      [] pc = 28 -> Assign(E, 29, "huge", IntPow(2, 100))
      [] pc = 29 -> print(E, 30, <<Lit("\n2^100 = "), Val(E.L.huge)>>)
      [] pc = 30 -> print(E, 33,
                          <<Lit("Length: "),
                            Val(PyInt(StrLen(Str(E.L.huge, E.H)))), Lit(" digits")>>)
      [] pc = 33 -> Assign(E, 34, "binary", PyInt(IntLiteral(<<"1", "0", "1", "0">>, 2)))
      [] pc = 34 -> Assign(E, 35, "octal", PyInt(IntLiteral(<<"1", "2">>, 8)))
      [] pc = 35 -> Assign(E, 36, "hexadec", PyInt(IntLiteral(<<"F", "F">>, 16)))
      [] pc = 36 -> print(E, 37, <<Lit("\nBinary 0b1010 = "), Val(E.L.binary)>>)
      [] pc = 37 -> print(E, 38, <<Lit("Octal 0o12 = "), Val(E.L.octal)>>)
      [] pc = 38 -> print(E, END, <<Lit("Hexadecimal 0xFF = "), Val(E.L.hexadec)>>)
      [] pc = END -> Return(E, PyNone)

demo_integers ==
    /\ Running("types_demo", "demo_integers")
    /\ Exec(demo_integers_step(Top.pc, Env))

demo_floats_step(pc, E) ==
    CASE pc = 43 -> print(E, 44, <<Val(PyStr(<<"\n">> \o Rep("=", 50)))>>)
      [] pc = 44 -> print(E, 45, <<Lit("FLOAT DEMONSTRATION")>>)
      [] pc = 45 -> print(E, 47, <<Val(Line("=", 50))>>)
      [] pc = 47 -> Assign(E, 48, "pi", FloatLit(<<"3", ".", "1", "4", "1", "5", "9">>))
      [] pc = 48 -> Assign(E, 49, "e", FloatLit(<<"2", ".", "7", "1", "8", "2", "8">>))
      [] pc = 49 -> print(E, 50, <<Lit("\nπ "), Lit("\\u2248"), Lit(" "),
                                   Val(E.L.pi)>>)
      [] pc = 50 -> print(E, 53, <<Lit("e "), Lit("\\u2248"), Lit(" "), Val(E.L.e)>>)
      [] pc = 53 -> Assign(E, 54, "result",
                           PyAdd(FloatLit(<<"0", ".", "1">>), FloatLit(<<"0", ".", "2">>)))
      [] pc = 54 -> print(E, 55, <<Lit("\n0.1 + 0.2 = "), Val(E.L.result)>>)
      [] pc = 55 -> print(E, 56,
                          <<Lit("Expected 0.3? "),
                            Val(PyBool(PyEq(E.L.result, FloatLit(<<"0", ".", "3">>))))>>)
      [] pc = 56 -> print(E, 59, <<Lit("Rounded: "),
                                   Val(PyFloat(FRound(E.L.result.v, 1)))>>)
      [] pc = 59 -> Assign(E, 61, "Decimal", PyType("decimal.Decimal"))
      [] pc = 61 ->
           IF IsFloatText(<<"0", ".", "1">>) THEN Assign(E, 62, "d1", DecimalOf(<<"0", ".", "1">>))
           ELSE Raise(E, "InvalidOperation")
      [] pc = 62 ->
           IF IsFloatText(<<"0", ".", "2">>) THEN Assign(E, 63, "d2", DecimalOf(<<"0", ".", "2">>))
           ELSE Raise(E, "InvalidOperation")
      [] pc = 63 -> print(E, 64,
                          <<Lit("\nUsing Decimal: "), Val(E.L.d1), Lit(" + "),
                            Val(E.L.d2), Lit(" = "),
                            Val(DecimalAdd(E.L.d1.v, E.L.d2.v))>>)
      [] pc = 64 ->
           IF IsFloatText(<<"0", ".", "3">>)
           THEN print(E, END,
                      <<Lit("Exact? "),
                        Val(PyBool(DecimalEq(DecimalAdd(E.L.d1.v, E.L.d2.v).v,
                                             DecimalOf(<<"0", ".", "3">>).v)))>>)
           ELSE Raise(E, "InvalidOperation")
      [] pc = END -> Return(E, PyNone)

demo_floats ==
    /\ Running("types_demo", "demo_floats")
    /\ Exec(demo_floats_step(Top.pc, Env))

demo_strings_step(pc, E) ==
    CASE pc = 69 -> print(E, 70, <<Val(PyStr(<<"\n">> \o Rep("=", 50)))>>)
      [] pc = 70 -> print(E, 71, <<Lit("STRING DEMONSTRATION")>>)
      [] pc = 71 -> print(E, 73, <<Val(Line("=", 50))>>)
      [] pc = 73 -> Assign(E, 74, "text", PyStr(<<"P", "y", "t", "h", "o", "n", " ", "P", "r", "o", "g", "r", "a", "m", "m", "i", "n", "g">>))
      [] pc = 74 -> print(E, 75, <<Lit("\nOriginal: "), Val(E.L.text)>>)
      [] pc = 75 -> print(E, 76, <<Lit("Length: "), Val(PyInt(StrLen(E.L.text.v)))>>)
      [] pc = 76 -> print(E, 77, <<Lit("Uppercase: "),
                                   Val(PyStr(StrUpper(E.L.text.v)))>>)
      [] pc = 77 -> print(E, 78, <<Lit("Lowercase: "),
                                   Val(PyStr(StrLower(E.L.text.v)))>>)
      [] pc = 78 -> print(E, 79, <<Lit("First 6 chars: "),
                                   Val(PyStr(SliceTo(E.L.text.v, 6)))>>)
      [] pc = 79 -> print(E, 80, <<Lit("Last 11 chars: "),
                                   Val(PyStr(SliceLast(E.L.text.v, 11)))>>)
      [] pc = 80 -> print(E, 83, <<Lit("Reversed: "),
                                   Val(PyStr(Reverse(E.L.text.v)))>>)
      [] pc = 83 -> Assign(E, 84, "name", PyStr(<<"A", "l", "i", "c", "e">>))
      [] pc = 84 -> Assign(E, 85, "age", PyInt(30))
      [] pc = 85 -> print(E, 86, <<Lit("\n--- String Formatting ---")>>)
      [] pc = 86 -> print(E, 87,
                          <<Lit("Hello, "), Val(E.L.name), Lit("! You are "),
                            Val(E.L.age), Lit(" years old.")>>)
      [] pc = 87 -> print(E, 90,
                          <<Lit("Next year: "), Val(E.L.name), Lit(" will be "),
                            Val(PyInt(E.L.age.v + 1))>>)
      [] pc = 90 -> Assign(E, 91, "value", FloatLit(<<"1", "2", "3", "4", ".", "5", "6", "7", "8">>))
      [] pc = 91 -> print(E, 92, <<Lit("\n--- Number Formatting ---")>>)
      [] pc = 92 -> print(E, 93, <<Lit("Original: "), Val(E.L.value)>>)
      [] pc = 93 -> print(E, 94, <<Lit("2 decimals: "), Fmt(E.L.value, <<".", "2", "f">>)>>)
      [] pc = 94 -> print(E, 95, <<Lit("With commas: "), Fmt(E.L.value, <<",", ".", "2", "f">>)>>)
      [] pc = 95 -> print(E, END, <<Lit("Percentage: "),
                                    Fmt(FloatLit(<<"0", ".", "7", "5", "5">>), <<".", "1", "%">>)>>)
      [] pc = END -> Return(E, PyNone)

demo_strings ==
    /\ Running("types_demo", "demo_strings")
    /\ Exec(demo_strings_step(Top.pc, Env))

\* falsy_values gone wrong: 1 stands where 0 should
falsy_values_one(list, dict) ==
    <<PyInt(1), FloatLit(<<"0", ".", "0">>), PyStr(<<>>), list, dict, PyNone, PyBool(FALSE)>>

\* falsy_values = [0, 0.0, "", [], {}, None, False], given the references to
\* its empty list and empty dict
falsy_values(list, dict) ==
    <<PyInt(0), FloatLit(<<"0", ".", "0">>), PyStr(<<>>), list, dict, PyNone, PyBool(FALSE)>>

\* truthy_values = [1, "text", [1], {"a": 1}, True], given the references to
\* its list and dict
truthy_values(list, dict) ==
    <<PyInt(1), PyStr(<<"t", "e", "x", "t">>), list, dict, PyBool(TRUE)>>

demo_booleans_step(pc, E) ==
    CASE pc = 100 -> print(E, 101, <<Val(PyStr(<<"\n">> \o Rep("=", 50)))>>)
      [] pc = 101 -> print(E, 102, <<Lit("BOOLEAN DEMONSTRATION")>>)
      [] pc = 102 -> print(E, 105, <<Val(Line("=", 50))>>)
      [] pc = 105 -> print(E, 106,
                           <<Lit("\nTrue and False = "),
                             Val(PyAnd(PyBool(TRUE), PyBool(FALSE), E.H))>>)
      [] pc = 106 -> print(E, 107,
                           <<Lit("True or False = "),
                             Val(PyOr(PyBool(TRUE), PyBool(FALSE), E.H))>>)
      [] pc = 107 -> print(E, 110, <<Lit("not True = "),
                                     Val(PyNot(PyBool(TRUE), E.H))>>)
      [] pc = 110 -> Goto(Unpacked(E, <<"x", "y">>, PyTuple(<<PyInt(5), PyInt(10)>>)),
                          111)
      [] pc = 111 -> print(E, 112,
                           <<Lit("\n"), Val(E.L.x), Lit(" == "), Val(E.L.y),
                             Lit(" = "), Val(PyBool(PyEq(E.L.x, E.L.y)))>>)
      [] pc = 112 -> print(E, 113,
                           <<Val(E.L.x), Lit(" < "), Val(E.L.y), Lit(" = "),
                             Val(PyBool(E.L.x.v < E.L.y.v))>>)
      [] pc = 113 -> print(E, 116,
                           <<Val(E.L.x), Lit(" != "), Val(E.L.y), Lit(" = "),
                             Val(PyBool(~PyEq(E.L.x, E.L.y)))>>)
      [] pc = 116 -> print(E, 117, <<Lit("\n--- Truthiness Tests ---")>>)
      [] pc = 117 -> Assign(Alloc(Alloc(Alloc(E, ListObj(<<>>)), DictObj(<<>>)),
                                  ListObj(falsy_values(Ref(E, 1), Ref(E, 2)))),
                            118, "falsy_values", Ref(E, 3))
      [] pc = 118 -> For(E, 118, 119, 121, <<"val">>, E.L.falsy_values)
      [] pc = 119 -> print(E, 118,
                           <<Fmt(PyStr(Repr(E.L.val, E.H)), <<"1", "0">>),
                             Lit(" is falsy")>>)
      [] pc = 121 -> print(E, 122, <<>>)
      [] pc = 122 -> Assign(Alloc(Alloc(Alloc(E, ListObj(<<PyInt(1)>>)),
                                        DictObj(<<<<PyStr(<<"a">>), PyInt(1)>>>>)),
                                  ListObj(truthy_values(Ref(E, 1), Ref(E, 2)))),
                            123, "truthy_values", Ref(E, 3))
      [] pc = 123 -> For(E, 123, 124, END, <<"val">>, E.L.truthy_values)
      [] pc = 124 -> print(E, 123,
                           <<Fmt(PyStr(Repr(E.L.val, E.H)), <<"1", "0">>),
                             Lit(" is truthy")>>)
      [] pc = END -> Return(E, PyNone)

demo_booleans ==
    /\ Running("types_demo", "demo_booleans")
    /\ Exec(demo_booleans_step(Top.pc, Env))

demo_type_conversion_step(pc, E) ==
    CASE pc = 129 -> print(E, 130, <<Val(PyStr(<<"\n">> \o Rep("=", 50)))>>)
      [] pc = 130 -> print(E, 131, <<Lit("TYPE CONVERSION DEMONSTRATION")>>)
      [] pc = 131 -> print(E, 134, <<Val(Line("=", 50))>>)
      [] pc = 134 -> Assign(E, 135, "str_int", PyStr(<<"4", "2">>))
      [] pc = 135 -> Assign(E, 136, "str_float", PyStr(<<"3", ".", "1", "4">>))
      [] pc = 136 ->
           IF ~IsIntText(E.L.str_int.v) THEN Raise(E, "ValueError")
           ELSE print(E, 137,
                      <<Lit("\nString '"), Val(E.L.str_int), Lit("' to int: "),
                        Val(PyInt(IntOf(E.L.str_int.v)))>>)
      [] pc = 137 ->
           IF ~IsFloatText(E.L.str_float.v) THEN Raise(E, "ValueError")
           ELSE print(E, 140,
                      <<Lit("String '"), Val(E.L.str_float), Lit("' to float: "),
                        Val(FloatLit(E.L.str_float.v))>>)
      [] pc = 140 -> Assign(E, 141, "num", PyInt(100))
      [] pc = 141 -> print(E, 144,
                           <<Lit("\nInt "), Val(E.L.num), Lit(" to string: '"),
                             Val(PyStr(Str(E.L.num, E.H))), Lit("'")>>)
      [] pc = 144 -> Assign(E, 145, "f", FloatLit(<<"3", ".", "7">>))
      [] pc = 145 -> print(E, 148,
                           <<Lit("\nFloat "), Val(E.L.f), Lit(" to int: "),
                             Val(IntOfFloat(E.L.f.v)), Lit(" (truncates)")>>)
      [] pc = 148 -> print(E, 149,
                           <<Lit("\nType of "), Val(E.L.num), Lit(": "),
                             Val(PyType(TypeName(E.L.num, E.H)))>>)
      [] pc = 149 -> print(E, END,
                           <<Lit("Is "), Val(E.L.num), Lit(" an int? "),
                             Val(PyBool(IsIntLike(E.L.num)))>>)
      [] pc = END -> Return(E, PyNone)

demo_type_conversion ==
    /\ Running("types_demo", "demo_type_conversion")
    /\ Exec(demo_type_conversion_step(Top.pc, Env))

\* first_step gone wrong: the last item is returned
first_step_last(pc, E) ==
    CASE pc = 161 ->
           IF Len(Deref(E.L.items, E.H).v) = 0 THEN Raise(E, "IndexError")
           ELSE Return(E, Deref(E.L.items, E.H).v[Len(Deref(E.L.items, E.H).v)])

\* def first[T](items: list[T]) -> T: return items[0]
first_step(pc, E) ==
    CASE pc = 161 ->
           IF Len(Deref(E.L.items, E.H).v) = 0 THEN Raise(E, "IndexError")
           ELSE Return(E, Deref(E.L.items, E.H).v[1])

first ==
    /\ Running("types_demo", "first")
    /\ Exec(first_step(Top.pc, Env))

\* class Box[T]: def __init__(self, item: T): self.item = item
Box_init_step(pc, E) ==
    CASE pc = 175 -> Goto(SetAttr(E, E.L.self, "item", E.L.item), END)
      [] pc = END -> Return(E, PyNone)

Box_init ==
    /\ Running("types_demo", "Box.__init__")
    /\ Exec(Box_init_step(Top.pc, Env))

\* def get(self) -> T: return self.item
Box_get_step(pc, E) ==
    CASE pc = 178 ->
           IF HasAttr(E, E.L.self, "item")
           THEN Return(E, GetAttr(E, E.L.self, "item"))
           ELSE Raise(E, "AttributeError")

Box_get ==
    /\ Running("types_demo", "Box.get")
    /\ Exec(Box_get_step(Top.pc, Env))

\* def __repr__(self) -> str: return f"Box({self.item!r})"
Box_repr_step(pc, E) ==
    CASE pc = 181 ->
           IF HasAttr(E, E.L.self, "item")
           THEN ReturnText(E, <<Lit("Box("),
                                FmtR(GetAttr(E, E.L.self, "item"), <<>>), Lit(")")>>)
           ELSE Raise(E, "AttributeError")

Box_repr ==
    /\ Running("types_demo", "Box.__repr__")
    /\ Exec(Box_repr_step(Top.pc, Env))

\* Box(item): a new instance, and the call of its __init__; the instance is
\* the value of the expression once __init__ has returned
New(E, pc, next, name, item) ==
    IF E.eval = <<>>
    THEN Call(Push(Alloc(E, Instance("Box", NoAttrs)), NewRef(E)), pc,
              "Box.__init__", 175, [self |-> NewRef(E), item |-> item])
    ELSE Assign(Used(E), next, name, E.eval[1])

\* print(f"{text}{callee(arg)}"): the call, then the line with its value
PrintCall(E, pc, next, text, callee, entry, args) ==
    IF E.eval = <<>> THEN Call(E, pc, callee, entry, args)
    ELSE print(Used(E), next, <<Lit(text), Val(E.eval[1])>>)

demo_generics_step(pc, E) ==
    CASE pc = 154 -> print(E, 155, <<Val(PyStr(<<"\n">> \o Rep("=", 50)))>>)
      [] pc = 155 -> print(E, 156,
                           <<Lit("GENERIC TYPES DEMONSTRATION (Python 3.14)")>>)
      [] pc = 156 -> print(E, 159, <<Val(Line("=", 50))>>)
      [] pc = 159 -> Assign(E, 164, "first", [t |-> "function", v |-> "first"])
      [] pc = 164 -> Assign(Alloc(E, ListObj(<<PyInt(1), PyInt(2), PyInt(3)>>)),
                            165, "numbers", NewRef(E))
      [] pc = 165 -> Assign(Alloc(E, ListObj(<<PyStr(<<"h", "e", "l", "l", "o">>),
                                               PyStr(<<"w", "o", "r", "l", "d">>)>>)),
                            167, "words", NewRef(E))
      [] pc = 167 -> PrintCall(E, 167, 168, "\nFirst number: ", "first", 161,
                               [items |-> E.L.numbers])
      [] pc = 168 -> PrintCall(E, 168, 171, "First word: ", "first", 161,
                               [items |-> E.L.words])
      [] pc = 171 -> Assign(E, 183, "Box", PyType("Box"))
      [] pc = 183 -> New(E, 183, 184, "int_box", PyInt(42))
      [] pc = 184 -> New(E, 184, 186, "str_box", PyStr(<<"P", "y", "t", "h", "o", "n">>))
      \* format(int_box, "") is str(int_box), which Box.__repr__ gives
      [] pc = 186 -> PrintCall(E, 186, 187, "\nInteger box: ", "Box.__repr__", 181,
                               [self |-> E.L.int_box])
      [] pc = 187 -> PrintCall(E, 187, 188, "String box: ", "Box.__repr__", 181,
                               [self |-> E.L.str_box])
      [] pc = 188 -> PrintCall(E, 188, END, "Get value: ", "Box.get", 178,
                               [self |-> E.L.int_box])
      [] pc = END -> Return(E, PyNone)

demo_generics ==
    /\ Running("types_demo", "demo_generics")
    /\ Exec(demo_generics_step(Top.pc, Env))

types_demo_main_step(pc, E) ==
    CASE pc = 193 -> print(E, 194, <<Lit("\n")>>)
      [] pc = 194 -> print(E, 195,
                           <<Val(PyStr(<<"\\u2554">> \o Rep("\\u2550", 48) \o <<"\\u2557">>))>>)
      [] pc = 195 -> print(E, 196,
                           <<Val(PyStr(<<"\\u2551">> \o Rep(" ", 10)
                                       \o <<"PYTHON TYPES DEMONSTRATION">>
                                       \o Rep(" ", 12) \o <<"\\u2551">>))>>)
      [] pc = 196 -> print(E, 198,
                           <<Val(PyStr(<<"\\u255a">> \o Rep("\\u2550", 48) \o <<"\\u255d">>))>>)
      [] pc = 198 -> CallStmt(E, 198, 199, "demo_integers", 12)
      [] pc = 199 -> CallStmt(E, 199, 200, "demo_floats", 43)
      [] pc = 200 -> CallStmt(E, 200, 201, "demo_strings", 69)
      [] pc = 201 -> CallStmt(E, 201, 202, "demo_booleans", 100)
      [] pc = 202 -> CallStmt(E, 202, 203, "demo_type_conversion", 129)
      [] pc = 203 -> CallStmt(E, 203, 205, "demo_generics", 154)
      [] pc = 205 -> print(E, 206, <<Val(PyStr(<<"\n">> \o Rep("=", 50)))>>)
      [] pc = 206 -> print(E, 207, <<Lit("DEMONSTRATION COMPLETE")>>)
      [] pc = 207 -> print(E, END, <<Val(PyStr(Rep("=", 50) \o <<"\n">>))>>)
      [] pc = END -> Return(E, PyNone)

types_demo_main ==
    /\ Running("types_demo", "main")
    /\ Exec(types_demo_main_step(Top.pc, Env))

Next ==
    \/ Module
    \/ greet
    \/ hello_main
    \/ basic_formatting
    \/ number_formatting
    \/ alignment_formatting
    \/ advanced_formatting
    \/ practical_examples
    \/ comparison_example
    \/ string_formatting_main
    \/ demo_integers
    \/ demo_floats
    \/ demo_strings
    \/ demo_booleans
    \/ demo_type_conversion
    \/ first
    \/ Box_init
    \/ Box_get
    \/ Box_repr
    \/ demo_generics
    \/ types_demo_main

Spec == Init /\ [][Next]_vars

(***************************************************************************)
(* demo_generics() with other lists and other boxed values than its own:   *)
(* first() and Box take any element type.  The runs start in               *)
(* demo_generics() after line 164, numbers being any list of at most       *)
(* MaxLen of the Elements, or in the call Box(item) of line 183, item      *)
(* being any of the Elements.                                              *)
(***************************************************************************)
MaxLen == 2

\* an object already on the heap, which an element may refer to
Shared == ListObj(<<PyInt(1), PyInt(2)>>)

\* values of the element types of the scripts: int, str, None, bool, float,
\* and a reference to a list
Elements ==
    <<PyInt(42), PyInt(0), PyStr(<<"P", "y", "t", "h", "o", "n">>), PyNone,
      PyBool(FALSE), FloatLit(<<"3", ".", "7">>), PyRef(1)>>

\* the lists of at most MaxLen elements, each given by the places of its
\* items in Elements
Choices == UNION {[1..n -> 1..Len(Elements)] : n \in 0..MaxLen}

ListOf(choice) == [i \in 1..Len(choice) |-> Elements[choice[i]]]

\* the stack after the call with effect r made by demo_generics()
Entered(r) ==
    <<[fn |-> "demo_generics", pc |-> r.pc, L |-> r.L, eval |-> r.eval],
      Frame(r.callee, r.entry, r.args)>>

\* demo_generics() is about to run line 165, numbers bound to the list xs
AfterNumbers(xs) ==
    /\ H = <<Shared, ListObj(xs)>>
    /\ stack = <<[fn |-> "demo_generics", pc |-> 165,
                  L |-> [numbers |-> PyRef(2)], eval |-> <<>>]>>
    /\ calls = <<>>

\* demo_generics() has called Box(item) at line 183
InBox(r) ==
    /\ H = r.H
    /\ stack = Entered(r)
    /\ calls = <<<<"call", r.callee, r.args>>>>

InitGenerics ==
    /\ script = "types_demo"
    /\ version \in Versions
    /\ G = Globals("types_demo")
    /\ stdout = <<>>
    /\ status = "running"
    /\ exc = ""
    /\ \/ \E choice \in Choices : AfterNumbers(ListOf(choice))
       \/ \E k \in 1..Len(Elements) :
              InBox(New([L |-> NoLocals, eval |-> <<>>,
                         G |-> Globals("types_demo"), H |-> <<Shared>>],
                        183, 184, "int_box", Elements[k]))

NextGenerics ==
    \/ first
    \/ Box_init
    \/ Box_get
    \/ Box_repr
    \/ demo_generics

SpecGenerics == InitGenerics /\ [][NextGenerics]_vars

(***************************************************************************)
(* What the specification says of the scripts, as properties of the runs.  *)
(***************************************************************************)
\* the running frame is function fn of script s, at line pc
AtLine(s, fn, pc) == Running(s, fn) /\ Top.pc = pc

\* the last write to standard output
LastWrite == stdout[Len(stdout)]

\* a line written by print(text)
Written(text) == [text |-> text, end |-> "\n"]

\* a and b are the same value (values of different types are not compared)
Same(a, b) == a.t = b.t /\ a.v = b.v

\* function fn has returned
HasReturned(fn) ==
    \E k \in 1..Len(calls) : calls[k][1] = "return" /\ calls[k][2] = fn

\* -------------------------------------------------------------------------
\* the rows of the invoice, and qty * price of one
InvoiceRows == Deref(Top.L.items, H).v

RowTotal(row) == FMul(IntToFloat(row.v[2].v), row.v[3].v)

\* the sum of qty * price over the three rows, added from 0 in the order of
\* the loop, each operation rounded as a float operation is
InvoiceSum ==
    FAdd(FAdd(FAdd(FZero(0), RowTotal(InvoiceRows[1])), RowTotal(InvoiceRows[2])),
         RowTotal(InvoiceRows[3]))

\* the rows are (2, 29.99), (1, 49.99), (1, 89.99)
InvoiceRowsAsListed ==
    /\ Len(InvoiceRows) = 3
    /\ <<InvoiceRows[1].v[2], InvoiceRows[2].v[2], InvoiceRows[3].v[2]>>
         = <<PyInt(2), PyInt(1), PyInt(1)>>
    /\ FEq(InvoiceRows[1].v[3].v, FloatOf(<<"2", "9", ".", "9", "9">>))
    /\ FEq(InvoiceRows[2].v[3].v, FloatOf(<<"4", "9", ".", "9", "9">>))
    /\ FEq(InvoiceRows[3].v[3].v, FloatOf(<<"8", "9", ".", "9", "9">>))

TaxLine == Written("Tax (8.5%):                                $    17.00")

\* C1, as the specification states it: after the loop over the three rows
\* the subtotal equals 199.96, and the tax line shows 17.00.
InvoiceSubtotalIs19996 ==
    /\ AtLine("string_formatting", "practical_examples", 168) =>
           /\ InvoiceRowsAsListed
           /\ FEq(Top.L.subtotal.v, FloatOf(<<"1", "9", "9", ".", "9", "6">>))
    /\ AtLine("string_formatting", "practical_examples", 174) =>
           LastWrite = TaxLine

\* C1, amended: after the loop the subtotal is the float sum of qty * price
\* over the three rows, which is the float just below 199.96 (its repr is
\* 199.95999999999998); it is printed, to two decimals, as 199.96, and the
\* tax, subtotal * 0.085, is printed as 17.00.
InvoiceSubtotalPrints19996 ==
    /\ AtLine("string_formatting", "practical_examples", 168) =>
           /\ InvoiceRowsAsListed
           /\ Top.L.subtotal.t = "float"
           /\ FEq(Top.L.subtotal.v, InvoiceSum)
           /\ FLess(Top.L.subtotal.v, FloatOf(<<"1", "9", "9", ".", "9", "6">>))
           /\ Text(FloatToStr(Top.L.subtotal.v)) = "199.95999999999998"
    /\ AtLine("string_formatting", "practical_examples", 173) =>
           LastWrite = Written("Subtotal:                                  $   199.96")
    /\ AtLine("string_formatting", "practical_examples", 174) =>
           /\ FEq(Top.L.tax.v,
                  FMul(Top.L.subtotal.v, FloatOf(<<"0", ".", "0", "8", "5">>)))
           /\ LastWrite = TaxLine

\* the tax line of the invoice has just been printed
InvoiceTaxPrinted ==
    /\ AtLine("string_formatting", "practical_examples", 174)
    /\ LastWrite = TaxLine

\* -------------------------------------------------------------------------
HelloLines ==
    <<"Hello, World!", "Welcome to Python 3.14!", "Hello, Python Learner!",
      "2 + 2 = 4">>

\* C2: the first four lines hello.py writes are, in this order, "Hello,
\* World!", "Welcome to Python 3.14!", the greeting greet("Python Learner")
\* returned, "Hello, Python Learner!", and "2 + 2 = 4"; a run that ends has
\* written them all.
HelloLinesInOrder ==
    script = "hello" =>
        /\ \A i \in 1..Min(4, Len(stdout)) : stdout[i] = Written(HelloLines[i])
        /\ Len(stdout) >= 3 =>
               \E k \in 1..Len(calls) :
                   /\ calls[k][1] = "return" /\ calls[k][2] = "greet"
                   /\ calls[k][3].t = "str"
                   /\ Text(calls[k][3].v) = HelloLines[3]
                   /\ calls[k - 1] = <<"call", "greet",
                                       [name |-> PyStr(<<"P", "y", "t", "h", "o", "n", " ",
                                                         "L", "e", "a", "r", "n", "e", "r">>)]>>
        /\ status = "ok" => Len(stdout) >= 4

\* hello.py has run to its end
HelloDone == script = "hello" /\ status = "ok" /\ Len(stdout) >= 4

\* -------------------------------------------------------------------------
FalsyLines ==
    <<"0          is falsy", "0.0        is falsy", "''         is falsy",
      "[]         is falsy", "{}         is falsy", "None       is falsy",
      "False      is falsy">>

TruthyLines ==
    <<"1          is truthy", "'text'     is truthy", "[1]        is truthy",
      "{'a': 1}   is truthy", "True       is truthy">>

\* the lines written so far that are among lines
Among(lines) ==
    SelectSeq(stdout, LAMBDA w : \E i \in 1..Len(lines) : w = Written(lines[i]))

\* the value val, with the object it refers to
Object(val) == Deref(val, H)

\* C3: in demo_booleans() every value labelled "is falsy" is false by the
\* truthiness rule and every value labelled "is truthy" is true; the values
\* so labelled are 0, 0.0, '', [], {}, None, False and 1, 'text', [1],
\* {'a': 1}, True, and none gets both labels.
LabelsMatchTruthiness ==
    /\ AtLine("types_demo", "demo_booleans", 119) =>
           ~Truthy(Top.L.val, H)
    /\ AtLine("types_demo", "demo_booleans", 124) =>
           /\ Truthy(Top.L.val, H)
           /\ \A i \in 1..Len(Object(Top.L.falsy_values).v) :
                  ~Same(Object(Object(Top.L.falsy_values).v[i]),
                        Object(Top.L.val))
    /\ script = "types_demo" =>
           /\ \A i \in 1..Len(Among(FalsyLines)) :
                  Among(FalsyLines)[i] = Written(FalsyLines[i])
           /\ \A i \in 1..Len(Among(TruthyLines)) :
                  Among(TruthyLines)[i] = Written(TruthyLines[i])
           /\ HasReturned("demo_booleans") =>
                  /\ Len(Among(FalsyLines)) = 7
                  /\ Len(Among(TruthyLines)) = 5

\* the last value of truthy_values is being labelled, all others are
TruthinessLabelled ==
    /\ AtLine("types_demo", "demo_booleans", 124)
    /\ Same(Top.L.val, PyBool(TRUE))
    /\ Len(Among(FalsyLines)) = 7
    /\ Len(Among(TruthyLines)) = 4

\* -------------------------------------------------------------------------
\* C4: in demo_type_conversion(), int("42") is 42, str(100) is "100" and
\* int(3.7) is 3, the float truncated toward zero, not 4; the lines printed
\* show these values.
ConversionsAsStated ==
    /\ AtLine("types_demo", "demo_type_conversion", 136) =>
           /\ Text(Top.L.str_int.v) = "42"
           /\ IntOf(Top.L.str_int.v) = 42
    /\ AtLine("types_demo", "demo_type_conversion", 137) =>
           LastWrite = Written("\nString '42' to int: 42")
    /\ AtLine("types_demo", "demo_type_conversion", 141) =>
           /\ Top.L.num = PyInt(100)
           /\ Text(Str(Top.L.num, H)) = "100"
    /\ AtLine("types_demo", "demo_type_conversion", 144) =>
           LastWrite = Written("\nInt 100 to string: '100'")
    /\ AtLine("types_demo", "demo_type_conversion", 145) =>
           /\ FEq(Top.L.f.v, FloatOf(<<"3", ".", "7">>))
           /\ IntOfFloat(Top.L.f.v) = PyInt(3)
    /\ AtLine("types_demo", "demo_type_conversion", 148) =>
           LastWrite = Written("\nFloat 3.7 to int: 3 (truncates)")

\* the three conversions have been printed
ConversionsPrinted ==
    /\ AtLine("types_demo", "demo_type_conversion", 148)
    /\ LastWrite = Written("\nFloat 3.7 to int: 3 (truncates)")

\* -------------------------------------------------------------------------
Suites == {"string_formatting", "types_demo"}

\* the topic functions of a suite, in source order
Topics(s) ==
    CASE s = "string_formatting" ->
           <<"basic_formatting", "number_formatting", "alignment_formatting",
             "advanced_formatting", "practical_examples", "comparison_example">>
      [] s = "types_demo" ->
           <<"demo_integers", "demo_floats", "demo_strings", "demo_booleans",
             "demo_type_conversion", "demo_generics">>
      [] OTHER -> <<>>

IsTopic(fn) == \E i \in 1..Len(Topics(script)) : Topics(script)[i] = fn

\* the calls and returns of the topic functions so far
TopicEvents == SelectSeq(calls, LAMBDA c : IsTopic(c[2]))

\* the k-th of them when each topic function is called once, in order, the
\* one before it having returned
TopicEvent(k) ==
    IF k % 2 = 1 THEN <<"call", Topics(script)[(k + 1) \div 2], NoLocals>>
    ELSE <<"return", Topics(script)[k \div 2], PyNone>>

Banner(s) ==
    IF s = "string_formatting" THEN "FORMATTING GUIDE COMPLETE"
    ELSE "DEMONSTRATION COMPLETE"

BannerWritten == \E i \in 1..Len(stdout) : stdout[i] = Written(Banner(script))

\* C5: main() of each suite calls its topic functions once each, in source
\* order, each after the one before has returned; they are called by main()
\* and by nothing else, and the COMPLETE banner is written only after the
\* last has returned, which it has in every run that ends.
TopicsOnceInOrder ==
    script \in Suites =>
        /\ Len(TopicEvents) <= 2 * Len(Topics(script))
        /\ \A k \in 1..Len(TopicEvents) : TopicEvents[k] = TopicEvent(k)
        /\ \A i \in 1..Len(stack) :
               IsTopic(stack[i].fn) => i = 3 /\ stack[2].fn = "main"
        /\ (BannerWritten \/ status = "ok") =>
               Len(TopicEvents) = 2 * Len(Topics(script))
        /\ status = "ok" => BannerWritten

\* a suite has written its banner
SuiteBannerWritten ==
    /\ script = "string_formatting"
    /\ BannerWritten
    /\ Len(TopicEvents) = 12

\* -------------------------------------------------------------------------
\* C6: number_formatting() prints pi = 3.14159265359 to two decimals as the
\* line "Pi (2 decimals): 3.14" and 42 zero-padded to width 5 as the line
\* "Zero-padded (5 digits): 00042".
PiAndZeroPadded ==
    /\ AtLine("string_formatting", "number_formatting", 44) =>
           FEq(Top.L.pi.v,
               FloatOf(<<"3", ".", "1", "4", "1", "5", "9", "2", "6", "5", "3",
                         "5", "9">>))
    /\ AtLine("string_formatting", "number_formatting", 45) =>
           LastWrite = Written("Pi (2 decimals): 3.14")
    /\ AtLine("string_formatting", "number_formatting", 62) =>
           Top.L.num = PyInt(42)
    /\ AtLine("string_formatting", "number_formatting", 63) =>
           LastWrite = Written("Zero-padded (5 digits): 00042")
    /\ (script = "string_formatting" /\ HasReturned("number_formatting")) =>
           /\ \E i \in 1..Len(stdout) :
                  stdout[i] = Written("Pi (2 decimals): 3.14")
           /\ \E i \in 1..Len(stdout) :
                  stdout[i] = Written("Zero-padded (5 digits): 00042")

\* the zero-padded line has just been printed, the pi line before it
ZeroPaddedPrinted ==
    /\ AtLine("string_formatting", "number_formatting", 63)
    /\ LastWrite = Written("Zero-padded (5 digits): 00042")
    /\ \E i \in 1..Len(stdout) : stdout[i] = Written("Pi (2 decimals): 3.14")

\* -------------------------------------------------------------------------
\* no statement has failed, and none is about to; while the script runs, a
\* frame of the script is running
NoError ==
    /\ status # "error"
    /\ exc = ""
    /\ status \in {"running", "ok"}
    /\ status = "running" <=> stack # <<>>
    /\ \A i \in 1..Len(stack) :
           \/ stack[i].fn \in {n \in DOMAIN G : G[n] = "function"} \cup {"<module>"}
           \/ script = "types_demo"
              /\ stack[i].fn \in {"first", "Box.__init__", "Box.get", "Box.__repr__"}
    /\ AtLine("types_demo", "demo_integers", 22) =>
           /\ <<Top.L.a, Top.L.b>> = <<PyInt(15), PyInt(4)>>
           /\ Top.L.b.v # 0
    /\ AtLine("types_demo", "demo_type_conversion", 136) =>
           IsIntText(Top.L.str_int.v)
    /\ AtLine("types_demo", "demo_type_conversion", 137) =>
           /\ Text(Top.L.str_float.v) = "3.14"
           /\ IsFloatText(Top.L.str_float.v)
    /\ \A k \in 1..Len(calls) :
           (calls[k][1] = "call" /\ calls[k][2] = "first") =>
               Len(Deref(calls[k][3].items, H).v) > 0

\* how far the script has come: the writes and the calls and returns so far
Events == Len(stdout) + Len(calls)

\* the place of line pc in the order of a function's statements, the end of
\* the body last
Rank(pc) == IF pc = END THEN 1000 ELSE pc

\* Every step brings the run nearer its end: it writes, calls or returns, or
\* it moves the running frame on to a later line, or (a for statement
\* entered) it stays at the line with its iterator made.  A step back to an
\* earlier line, the end of a loop body, is one that writes.
Advances ==
    \/ Len(stdout') + Len(calls') > Events
    \/ /\ Len(stdout') + Len(calls') = Events
       /\ Len(stack') = Len(stack)
       /\ stack' # <<>>
       /\ \/ Rank(stack'[Len(stack')].pc) > Rank(Top.pc)
          \/ /\ stack'[Len(stack')].pc = Top.pc
             /\ Len(stack'[Len(stack')].eval) > Len(Top.eval)

\* C7: no run of a script reaches an error: no exception is raised, 15 / 4
\* divides by a non-zero number, int("42") and float("3.14") are given
\* numerals, first() is called on non-empty lists only; every step of a
\* run advances it, so that it goes through its statements to the last and
\* stops only with exit status 0.
RunsEndWithoutError == []NoError /\ [][Advances]_vars

\* types_demo.py has run to its end, first() called on the way
TypesDemoExited ==
    /\ script = "types_demo"
    /\ status = "ok"
    /\ HasReturned("first")
    /\ HasReturned("demo_integers")

\* -------------------------------------------------------------------------
\* first(items) returns items[0]: the step that returns hands the caller the
\* first item and leaves the heap, the list with it, as it was; it does so
\* whenever the list is not empty
FirstReturnsHead ==
    Running("types_demo", "first") =>
        /\ Len(Deref(Top.L.items, H).v) > 0 => status' # "error"
        /\ status' # "error" =>
               /\ H' = H
               /\ SubSeq(calls', 1, Len(calls)) = calls
               /\ Len(calls') = Len(calls) + 1
               /\ calls'[Len(calls')][1] = "return"
               /\ calls'[Len(calls')][2] = "first"
               /\ Same(calls'[Len(calls')][3], Deref(Top.L.items, H).v[1])
               /\ Len(stack') = Len(stack) - 1
               /\ Len(stack') > 0 =>
                      Same(stack'[Len(stack')].eval[Len(stack'[Len(stack')].eval)],
                           Deref(Top.L.items, H).v[1])

\* Box.get() leaves the heap as it was
BoxGetKeeps == Running("types_demo", "Box.get") => H' = H

\* every value Box.get() has returned is the item its instance was made with
BoxGetReturnsItem ==
    \A k \in 1..Len(calls) :
        (calls[k][1] = "return" /\ calls[k][2] = "Box.get") =>
            /\ k > 1
            /\ calls[k - 1][1] = "call" /\ calls[k - 1][2] = "Box.get"
            /\ \E j \in 1..(k - 1) :
                   /\ calls[j][1] = "call" /\ calls[j][2] = "Box.__init__"
                   /\ calls[j][3].self = calls[k - 1][3].self
                   /\ Same(calls[j][3].item, calls[k][3])

\* C8: for every value v, Box(v).get() returns v, and for every non-empty
\* list xs, first(xs) returns xs[0] and leaves xs (and everything else on
\* the heap) unmodified.
GenericsReturnUnchanged ==
    []BoxGetReturnsItem /\ [][FirstReturnsHead /\ BoxGetKeeps]_vars

\* first() has returned the first of two different items, and Box.get() the
\* item of its box
GenericsReturned ==
    /\ status = "ok"
    /\ HasReturned("Box.get")
    /\ \E k \in 1..Len(calls) :
           /\ calls[k][1] = "call" /\ calls[k][2] = "first"
           /\ Len(Deref(calls[k][3].items, H).v) = 2
           /\ ~Same(Deref(calls[k][3].items, H).v[1],
                    Deref(calls[k][3].items, H).v[2])
           /\ calls[k + 1][1] = "return"
           /\ Same(calls[k + 1][3], Deref(calls[k][3].items, H).v[1])

\* -------------------------------------------------------------------------
\* the frames below the running one stay as they are in a step that calls
\* or goes on; in a step that returns, the caller is handed the value
BelowUnchanged ==
    \A i \in 1..(Len(stack) - 1) :
        i <= Len(stack') =>
            /\ stack'[i].fn = stack[i].fn
            /\ stack'[i].pc = stack[i].pc
            /\ stack'[i].L = stack[i].L
            /\ (i < Len(stack') \/ Len(stack') >= Len(stack)) =>
                   stack'[i].eval = stack[i].eval

\* What a step of a function leaves alone: the module namespace; the frames
\* of its callers; every object on the heap that its own locals do not
\* refer to.  A topic function is called by main() without arguments, starts
\* without locals and returns None, and main() holds no local at all.
FrameEffect ==
    status' # "error" =>
        /\ G' = G
        /\ Len(H') >= Len(H)
        /\ \A k \in 1..Len(H) :
               H'[k] # H[k] =>
                   /\ Len(stack) >= 3
                   /\ \E n \in DOMAIN Top.L : Same(Top.L[n], PyRef(k))
        /\ stack # <<>> => BelowUnchanged
        /\ (script \in Suites /\ Len(stack) >= 2) => stack[2].L = NoLocals
        /\ (script \in Suites /\ Len(stack) = 2 /\ Len(stack') = 3) =>
               /\ stack'[3].L = NoLocals
               /\ stack'[3].eval = <<>>
        /\ (script \in Suites /\ Len(stack) = 3 /\ Len(stack') = 2) =>
               stack'[2].eval = <<PyNone>>

\* C9: the topic functions share no mutable state: what a topic function
\* writes (subtotal, tax, total, items, precision, ...) is local to its
\* call, so that a step of it changes nothing the other topic functions or
\* main() can see, and each starts from the same state whatever ran before.
TopicFunctionsShareNothing == [][FrameEffect]_vars

\* practical_examples() has written subtotal, tax and total, and the module
\* namespace and the frame of main() are as they were
InvoiceLocalsWritten ==
    /\ AtLine("string_formatting", "practical_examples", 171)
    /\ {"items", "subtotal", "tax", "total"} \subseteq DOMAIN Top.L
    /\ G = Globals(script)
    /\ stack[2].L = NoLocals

\* -------------------------------------------------------------------------
\* the writes without a newline so far: the renderings of the progress bar
ProgressWrites == SelectSeq(stdout, LAMBDA w : w.end = "")

\* i right-aligned in three columns
Columns3(i) == Rep(" ", 3 - Len(IntToStr(i))) \o IntToStr(i)

\* the rendering of the bar at i percent: a carriage return, then i \div 2
\* filled cells followed by unfilled ones up to 50, then the percentage
BarAt(i) ==
    Text(<<"\r[">> \o Rep("█", i \div 2) \o Rep("░", 50 - i \div 2) \o <<"] ">>
         \o Columns3(i) \o <<"%">>)

\* the j-th write is a rendering of the bar
IsProgressAt(j) == stdout[j].end = ""

\* C10: the progress-bar loop renders the bar for 0, 10, ..., 100 percent in
\* this order, 11 times in all; each time filled = i // 2 cells are filled
\* and 50 - filled are not, the bar is 50 cells wide, 0 <= filled <= 50, the
\* bar is empty at 0 and full at 100; each rendering starts with a carriage
\* return and ends without a newline, no other line is written between two
\* of them, and one newline is written after the last.
ProgressBarRenders ==
    script = "string_formatting" =>
        /\ Len(ProgressWrites) <= 11
        /\ \A k \in 1..Len(ProgressWrites) :
               ProgressWrites[k].text = BarAt(10 * (k - 1))
        /\ \A j \in 1..Len(stdout) :
               (IsProgressAt(j) /\ j < Len(stdout)) =>
                   \/ IsProgressAt(j + 1) /\ Len(ProgressWrites) >= 2
                   \/ /\ stdout[j].text = BarAt(100)
                      /\ stdout[j + 1] = Written("")
        /\ \A pc \in {179, 180, 181} :
               AtLine("string_formatting", "practical_examples", pc) =>
                   /\ Top.L.i = PyInt(10 * Len(ProgressWrites))
                   /\ Top.L.i.v \in 0..100
        /\ \A pc \in {180, 181} :
               AtLine("string_formatting", "practical_examples", pc) =>
                   /\ Top.L.filled = PyInt(Top.L.i.v \div 2)
                   /\ Top.L.filled.v \in 0..50
        /\ AtLine("string_formatting", "practical_examples", 181) =>
               /\ StrLen(Top.L.bar.v) = 50
               /\ Top.L.bar.v = Rep("█", Top.L.filled.v)
                                 \o Rep("░", 50 - Top.L.filled.v)
               /\ Top.L.i.v = 0 => Top.L.bar.v = Rep("░", 50)
               /\ Top.L.i.v = 100 => Top.L.bar.v = Rep("█", 50)
        /\ AtLine("string_formatting", "practical_examples", 182) =>
               Len(ProgressWrites) = 11
        /\ HasReturned("practical_examples") =>
               /\ Len(ProgressWrites) = 11
               /\ \E j \in 1..(Len(stdout) - 1) :
                      IsProgressAt(j) /\ stdout[j + 1] = Written("")

\* the loop has ended and the newline after the bar has been written
ProgressBarDone ==
    /\ AtLine("string_formatting", "practical_examples", 185)
    /\ Len(ProgressWrites) = 11
    /\ ProgressWrites[1].text = BarAt(0)
    /\ ProgressWrites[11].text = BarAt(100)
    /\ LastWrite = Written("")

=============================================================================
